---- MODULE Spec2Model ----
(***************************************************************************)
(* Model of the concurrent OCR engine of rust-paddle-ocr (src/src/engine.rs):*)
(* OcrEngine (one worker thread owning Det and Rec, fed by an unbounded     *)
(* crossbeam channel, answering on a per-request reply channel), its Drop,  *)
(* and the process-wide OcrEngineManager slot guarded by one mutex.         *)
(*                                                                         *)
(* The inference backend is opaque: an image is modelled by the outcome the *)
(* backend produces on it (detection ok/err with its list of regions, each  *)
(* region's recognition ok/err).  Every value computed from an image carries*)
(* the tag of the request that brought the image in.                        *)
(***************************************************************************)
EXTENDS Integers, Sequences, FiniteSets, TLC

\* ------------------------------------------------------------------ bounds
MaxCalls == 2      \* engine operations called in one behaviour, each by its own caller thread
MaxRegions == 2    \* text regions detection finds in one image
MaxEngines == 2    \* engines created in one behaviour

\* A caller thread is named by the tag of the one operation it calls; threads
\* are interchangeable, so they are numbered in the order they start.
Ids == 1..MaxCalls
Engines == 1..MaxEngines

\* ------------------------------------------------------------------ data
\* enum OcrRequest
Kinds == {"DetectText", "GetTextRects", "GetTextImages", "RecognizeText", "ProcessOcr"}

Outcomes == {"ok", "err"}

RegSeqs == UNION {[1..n -> Outcomes] : n \in 0..MaxRegions}

\* A DynamicImage, seen through what the models do on it: det is the outcome
\* of detection, regs the recognition outcome of each detected region in
\* detection order, rec the outcome of recognising the image itself.
NoImage == [tag |-> 0, idx |-> 0, det |-> "err", regs |-> <<>>, rec |-> "err"]

FullImages == {[tag |-> 0, idx |-> 0, det |-> "err", regs |-> <<>>, rec |-> "err"]}
              \cup {[tag |-> 0, idx |-> 0, det |-> "ok", regs |-> s, rec |-> "err"] : s \in RegSeqs}

CropImages == {[tag |-> 0, idx |-> 0, det |-> "err", regs |-> <<>>, rec |-> o] : o \in Outcomes}

\* The images a caller passes to an operation of the given kind: one on which
\* detection fails and images with MaxRegions regions; for ProcessOcr every
\* mix of recognition outcomes over the regions, and an image without text.
InputsFor(kind) ==
    IF kind = "RecognizeText" THEN CropImages
    ELSE IF kind = "ProcessOcr"
         THEN {im \in FullImages : im.det = "ok" => Len(im.regs) \in {0, MaxRegions}}
    ELSE {im \in FullImages : im.det = "ok" => /\ Len(im.regs) = MaxRegions
                                                /\ \A i \in 1..Len(im.regs) : im.regs[i] = "ok"}

\* The images passed through the manager: per kind one image on which the
\* operation succeeds, and for ProcessOcr also one whose first region fails.
MgrInputsFor(kind) ==
    {im \in InputsFor(kind) :
        /\ kind = "RecognizeText" => im.rec = "ok"
        /\ kind # "RecognizeText" => im.det = "ok"
        /\ kind = "ProcessOcr" => \A i \in 2..Len(im.regs) : im.regs[i] = "ok"
        /\ kind = "ProcessOcr" => Len(im.regs) = MaxRegions}

\* OcrResult<T>: Ok(items) or Err(err)
NoErr == [what |-> "none", tag |-> 0, idx |-> 0]
Ok(items) == [ok |-> TRUE, items |-> items, err |-> NoErr]
Err(what, tag, idx) == [ok |-> FALSE, items |-> <<>>, err |-> [what |-> what, tag |-> tag, idx |-> idx]]
NoRet == Err("none", 0, 0)

\* OcrError::EngineError with the three messages of engine.rs
EngineTerminated == Err("engine: worker thread has terminated", 0, 0)
EngineRecvFailed == Err("engine: failed to receive result", 0, 0)
EngineNotInitialized == Err("engine: not initialized", 0, 0)
EngineErrors == {EngineTerminated, EngineRecvFailed, EngineNotInitialized}

\* Det::find_text_rect: the rectangles of the image, or the model's error
FindTextRect(img) ==
    IF img.det = "err" THEN Err("det", img.tag, 0)
    ELSE Ok([i \in 1..Len(img.regs) |-> [what |-> "rect", tag |-> img.tag, idx |-> i, rec |-> "ok"]])

\* Faulty variant of FindTextImg: the cropped images come in reverse order.
FindTextImgReversed(img) ==
    LET rects == FindTextRect(img)
    IN  IF ~rects.ok THEN rects
        ELSE Ok([i \in 1..Len(rects.items) |->
                    [what |-> "img", tag |-> img.tag, idx |-> Len(rects.items) + 1 - i,
                     rec |-> img.regs[Len(rects.items) + 1 - i]]])

\* Det::find_text_img: one cropped image per rectangle, in the same order
FindTextImg(img) ==
    LET rects == FindTextRect(img)
    IN  IF ~rects.ok THEN rects
        ELSE Ok([i \in 1..Len(rects.items) |->
                    [what |-> "img", tag |-> img.tag, idx |-> i, rec |-> img.regs[i]]])

\* Rec::predict_str on an image or on a crop
PredictStr(img) ==
    IF img.rec = "ok" THEN Ok(<<[what |-> "text", tag |-> img.tag, idx |-> img.idx, rec |-> "ok"]>>)
    ELSE Err("rec", img.tag, img.idx)

\* A cropped region handed to the recogniser is an image of its own.
AsImage(crop) == [tag |-> crop.tag, idx |-> crop.idx, det |-> "err", regs |-> <<>>, rec |-> crop.rec]

\* OcrRequest values; Shutdown carries no reply channel.
NoReq == [id |-> 0, kind |-> "None", image |-> NoImage]
Shutdown == [id |-> 0, kind |-> "Shutdown", image |-> NoImage]
Request(id, kind, img) ==
    [id |-> id, kind |-> kind,
     image |-> [tag |-> id, idx |-> 0, det |-> img.det, regs |-> img.regs, rec |-> img.rec]]

\* ------------------------------------------------------------------ state
VARIABLES
    est,        \* engine lifecycle: "none", "live", "dropping", "dropped"
    queue,      \* request channel of each engine (unbounded, FIFO)
    rxOpen,     \* the request Receiver of each engine is alive
    wpc,        \* position of each engine's worker thread
    cur,        \* the request the worker is handling (owns its result_sender)
    regions,    \* ProcessOcr: text_images still to recognise
    results,    \* ProcessOcr: strings recognised so far
    active,     \* requests taken by the worker and not yet finished
    lastTaken,  \* tag of the request each worker took last: 0 is none
    reply,      \* per request: messages in its reply channel
    replyRx,    \* per request: result_rx is alive
    replyTx,    \* per request: result_sender is alive
    sends,      \* per request: send calls made on result_sender
    cpc,        \* position of each caller thread
    cop,        \* the operation each caller thread calls
    ret,        \* the value the caller's operation returned
    nextId,     \* tag of the next caller to start
    ipc,        \* position of the thread running initialize* for each engine
    iold,       \* the engine that initialize* found in the slot: 0 is None
    inst,       \* INSTANCE (OnceCell) is initialised
    slot,       \* content of the manager's Mutex<Option<OcrEngine>>: 0 is None
    lock,       \* holder of the manager mutex
    lastInit,   \* engine of the last initialize* that took the lock: 0 is none
    phase,      \* position of a library function called on its own
    input,      \* the arguments it was called with
    output      \* what it has computed so far, its return value at the end

engineVars == <<est, queue, rxOpen, wpc, cur, regions, results, active, lastTaken>>
replyVars == <<reply, replyRx, replyTx, sends>>
threadVars == <<cpc, cop, ret, nextId>>
managerVars == <<ipc, iold, inst, slot, lock, lastInit>>
libVars == <<phase, input, output>>
vars == <<engineVars, replyVars, threadVars, managerVars, libVars>>

NoOp == [kind |-> "None", image |-> NoImage, eng |-> 0, via |-> "none"]

\* Holders of the manager mutex: nobody, a caller thread, an initialize* thread.
Unlocked == <<"none", 0>>
ByCall(i) == <<"call", i>>
ByInit(e) == <<"init", e>>


TypeOK ==
    /\ est \in [Engines -> {"none", "live", "dropping", "dropped"}]
    /\ rxOpen \in [Engines -> BOOLEAN]
    /\ wpc \in [Engines -> {"none", "loading", "idle", "detect", "recognize", "recloop", "exited"}]
    /\ active \in [Engines -> 0..MaxCalls]
    /\ lastTaken \in [Engines -> 0..MaxCalls]
    /\ replyRx \in [Ids -> BOOLEAN]
    /\ replyTx \in [Ids -> BOOLEAN]
    /\ sends \in [Ids -> 0..(MaxRegions + 2)]
    /\ cpc \in [Ids -> {"idle", "mlock", "waiting", "returned", "done"}]
    /\ nextId \in 1..(MaxCalls + 1)
    /\ ipc \in [Engines -> {"idle", "ilock", "ijoin", "done"}]
    /\ iold \in [Engines -> 0..MaxEngines]
    /\ inst \in BOOLEAN
    /\ slot \in 0..MaxEngines
    /\ lock \in {Unlocked} \cup {ByCall(i) : i \in Ids} \cup {ByInit(e) : e \in Engines}
    /\ lastInit \in 0..MaxEngines

\* No library function is being called on its own.
LibIdle ==
    /\ phase = "none"
    /\ input = <<>>
    /\ output = <<>>

\* State shared by both initial conditions: no request issued, no thread in a call.
InitCommon ==
    /\ queue = [e \in Engines |-> <<>>]
    /\ cur = [e \in Engines |-> NoReq]
    /\ regions = [e \in Engines |-> <<>>]
    /\ results = [e \in Engines |-> <<>>]
    /\ active = [e \in Engines |-> 0]
    /\ lastTaken = [e \in Engines |-> 0]
    /\ reply = [i \in Ids |-> <<>>]
    /\ replyRx = [i \in Ids |-> FALSE]
    /\ replyTx = [i \in Ids |-> FALSE]
    /\ sends = [i \in Ids |-> 0]
    /\ cpc = [i \in Ids |-> "idle"]
    /\ cop = [i \in Ids |-> NoOp]
    /\ ret = [i \in Ids |-> NoRet]
    /\ nextId = 1
    /\ ipc = [e \in Engines |-> "idle"]
    /\ iold = [e \in Engines |-> 0]
    /\ inst = FALSE
    /\ slot = 0
    /\ lock = Unlocked
    /\ lastInit = 0

\* The engine the application constructs with OcrEngine::new* and owns.
AppEngine == 1

\* The state right after OcrEngine::new* returned: the engine exists, its
\* worker thread is spawned and has not loaded the models yet.
Init ==
    /\ InitCommon
    /\ LibIdle
    /\ est = [e \in Engines |-> IF e = AppEngine THEN "live" ELSE "none"]
    /\ rxOpen = [e \in Engines |-> e = AppEngine]
    /\ wpc = [e \in Engines |-> IF e = AppEngine THEN "loading" ELSE "none"]

\* ------------------------------------------------------------------ channels
\* The tags of the requests (hence of the result_senders) held in a queue.
TagsIn(q) == {q[i].id : i \in 1..Len(q)} \ {0}

\* Faulty variant of AfterReceiverDrop: the queued messages outlive the Receiver.
QueueKeptAfterReceiverDrop(q) == q

\* crossbeam unbounded channel, receiver side dropped: the channel is
\* disconnected and the messages still in it are dropped (with the
\* result_sender each one owns).
AfterReceiverDrop(q) == <<>>

\* Faulty variant of SendOk: send never reports a disconnected channel.
SendAlwaysOk(e) == TRUE

\* Sender::send succeeds exactly while the Receiver is alive.
SendOk(e) == rxOpen[e]

\* Faulty variant of ReplyTo: the result goes to the reply channel of the next request.
ReplyToNext(id) == IF id < MaxCalls THEN id + 1 ELSE id

\* The reply channel a request's result is sent on: the request's own.
ReplyTo(id) == id

\* result_sender.send(msg), its error ignored ("let _ ="): the message is
\* queued when result_rx is alive and dropped otherwise. `last` says that the
\* request's result_sender is dropped right after (the match arm ends); a
\* reply channel with both ends dropped is freed, its send count with it.
SendReply(id, msg, last) ==
    /\ reply' = [reply EXCEPT ![ReplyTo(id)] = IF replyRx[ReplyTo(id)] THEN Append(@, msg) ELSE @]
    /\ sends' = [j \in Ids |-> IF last /\ j = id /\ ~replyRx[id] THEN 0
                               ELSE IF j = ReplyTo(id) THEN sends[j] + 1
                               ELSE sends[j]]

\* Faulty variant of Dequeue: the newest message is taken first.
DequeueNewest(q) == [req |-> q[Len(q)], rest |-> SubSeq(q, 1, Len(q) - 1)]

\* `for request in receiver` takes the message at the front of the channel.
Dequeue(q) == [req |-> Head(q), rest |-> Tail(q)]

\* ------------------------------------------------------------------ worker
\* Faulty variant of CanTake: a request is taken while another is being handled.
TakeAnytime(e) == TRUE

\* The worker starts the next loop iteration only when the previous match arm
\* has run to its end.
CanTake(e) == wpc[e] = "idle"

\* Faulty variant of ExitWorker: the worker thread ends and the Receiver
\* stays alive, with the requests queued in it.
ExitWorkerLeaksReceiver(e) ==
    /\ wpc' = [wpc EXCEPT ![e] = "exited"]
    /\ rxOpen' = rxOpen
    /\ queue' = queue
    /\ replyTx' = [i \in Ids |-> replyTx[i] /\ i # cur[e].id]
    /\ sends' = [i \in Ids |-> IF replyTx[i] /\ ~replyTx'[i] /\ ~replyRx[i] THEN 0 ELSE sends[i]]
    /\ cur' = [cur EXCEPT ![e] = NoReq]
    /\ regions' = [regions EXCEPT ![e] = <<>>]
    /\ results' = [results EXCEPT ![e] = <<>>]
    /\ active' = [active EXCEPT ![e] = 0]

\* The worker thread ends (run_worker returns or unwinds): the Receiver and
\* the request in hand are dropped.
ExitWorker(e) ==
    /\ wpc' = [wpc EXCEPT ![e] = "exited"]
    /\ rxOpen' = [rxOpen EXCEPT ![e] = FALSE]
    /\ queue' = [queue EXCEPT ![e] = AfterReceiverDrop(@)]
    /\ replyTx' = [i \in Ids |->
                     replyTx[i] /\ i # cur[e].id
                     /\ (i \in TagsIn(queue[e]) => i \in TagsIn(AfterReceiverDrop(queue[e])))]
    /\ sends' = [i \in Ids |-> IF replyTx[i] /\ ~replyTx'[i] /\ ~replyRx[i] THEN 0 ELSE sends[i]]
    /\ cur' = [cur EXCEPT ![e] = NoReq]
    /\ regions' = [regions EXCEPT ![e] = <<>>]
    /\ results' = [results EXCEPT ![e] = <<>>]
    /\ active' = [active EXCEPT ![e] = 0]

\* Det::from_file / Rec::from_file at the top of run_worker: on success the
\* worker enters the request loop, on failure `?` returns the error.
WorkerLoadOk(e) ==
    /\ wpc[e] = "loading"
    /\ wpc' = [wpc EXCEPT ![e] = "idle"]
    /\ UNCHANGED <<est, queue, rxOpen, cur, regions, results, active, lastTaken>>
    /\ UNCHANGED <<replyVars, threadVars, managerVars>>
    /\ UNCHANGED libVars

WorkerLoadFail(e) ==
    /\ wpc[e] = "loading"
    /\ ExitWorker(e)
    /\ UNCHANGED <<est, lastTaken, reply, replyRx>>
    /\ UNCHANGED <<threadVars, managerVars>>
    /\ UNCHANGED libVars

\* One iteration of `for request in receiver`: take the next message; Shutdown
\* breaks the loop, anything else is dispatched to its match arm.
WorkerTake(e) ==
    /\ CanTake(e)
    /\ wpc[e] \notin {"none", "loading", "exited"}
    /\ queue[e] # <<>>
    /\ LET r == Dequeue(queue[e]).req
       IN  IF r.kind = "Shutdown"
           THEN /\ ExitWorker(e)
                /\ UNCHANGED lastTaken
           ELSE /\ queue' = [queue EXCEPT ![e] = Dequeue(@).rest]
                /\ cur' = [cur EXCEPT ![e] = r]
                /\ wpc' = [wpc EXCEPT ![e] = IF r.kind = "RecognizeText" THEN "recognize" ELSE "detect"]
                /\ active' = [active EXCEPT ![e] = @ + 1]
                /\ lastTaken' = [lastTaken EXCEPT ![e] = r.id]
                /\ UNCHANGED <<rxOpen, regions, results, replyTx, sends>>
    /\ UNCHANGED <<est, reply, replyRx>>
    /\ UNCHANGED <<threadVars, managerVars>>
    /\ UNCHANGED libVars

\* End of a match arm: the request, with its result_sender, goes out of scope.
FinishRequest(e) ==
    /\ cur' = [cur EXCEPT ![e] = NoReq]
    /\ replyTx' = [replyTx EXCEPT ![cur[e].id] = FALSE]
    /\ active' = [active EXCEPT ![e] = @ - 1]
    /\ wpc' = [wpc EXCEPT ![e] = "idle"]
    /\ regions' = [regions EXCEPT ![e] = <<>>]
    /\ results' = [results EXCEPT ![e] = <<>>]

\* DetectText, GetTextImages: det.find_text_img; GetTextRects:
\* det.find_text_rect; the result is sent as it is.
WorkerDetect(e) ==
    /\ wpc[e] = "detect"
    /\ cur[e].kind \in {"DetectText", "GetTextImages", "GetTextRects"}
    /\ SendReply(cur[e].id,
                 IF cur[e].kind = "GetTextRects" THEN FindTextRect(cur[e].image)
                                                 ELSE FindTextImg(cur[e].image),
                 TRUE)
    /\ FinishRequest(e)
    /\ UNCHANGED <<est, queue, rxOpen, lastTaken, replyRx>>
    /\ UNCHANGED <<threadVars, managerVars>>
    /\ UNCHANGED libVars

\* RecognizeText: rec.predict_str; the result is sent as it is.
WorkerRecognize(e) ==
    /\ wpc[e] = "recognize"
    /\ SendReply(cur[e].id, PredictStr(cur[e].image), TRUE)
    /\ FinishRequest(e)
    /\ UNCHANGED <<est, queue, rxOpen, lastTaken, replyRx>>
    /\ UNCHANGED <<threadVars, managerVars>>
    /\ UNCHANGED libVars

\* ProcessOcr, `match det.find_text_img(&image)`: Ok starts the recognition
\* loop over text_images, Err is sent and ends the arm.
WorkerProcessDetect(e) ==
    /\ wpc[e] = "detect"
    /\ cur[e].kind = "ProcessOcr"
    /\ LET found == FindTextImg(cur[e].image)
       IN  IF found.ok
           THEN /\ regions' = [regions EXCEPT ![e] = found.items]
                /\ results' = [results EXCEPT ![e] = <<>>]
                /\ wpc' = [wpc EXCEPT ![e] = "recloop"]
                /\ UNCHANGED <<cur, active, reply, replyTx, sends>>
           ELSE /\ SendReply(cur[e].id, found, TRUE)
                /\ FinishRequest(e)
    /\ UNCHANGED <<est, queue, rxOpen, lastTaken, replyRx>>
    /\ UNCHANGED <<threadVars, managerVars>>
    /\ UNCHANGED libVars

\* Faulty variant of RestAfterError: the loop goes on after the error.
RestAfterErrorContinue(rs) == rs

\* What is left of text_images after a recognition error: `break` leaves the
\* loop, so nothing.
RestAfterError(rs) == <<>>

\* ProcessOcr, one iteration of `for text_img in text_images`: Ok pushes the
\* text, Err sends the error and breaks.
WorkerProcessRecognize(e) ==
    /\ wpc[e] = "recloop"
    /\ regions[e] # <<>>
    /\ LET text == PredictStr(AsImage(Head(regions[e])))
       IN  IF text.ok
           THEN /\ results' = [results EXCEPT ![e] = @ \o text.items]
                /\ regions' = [regions EXCEPT ![e] = Tail(@)]
                /\ UNCHANGED <<reply, sends>>
           ELSE /\ SendReply(cur[e].id, text, FALSE)
                /\ regions' = [regions EXCEPT ![e] = RestAfterError(Tail(@))]
                /\ UNCHANGED results
    /\ UNCHANGED <<est, queue, rxOpen, wpc, cur, active, lastTaken, replyRx, replyTx>>
    /\ UNCHANGED <<threadVars, managerVars>>
    /\ UNCHANGED libVars

\* ProcessOcr, after the loop (left at its end or by break):
\* `let _ = result_sender.send(Ok(results));`, then the arm ends.
WorkerProcessSend(e) ==
    /\ wpc[e] = "recloop"
    /\ regions[e] = <<>>
    /\ SendReply(cur[e].id, Ok(results[e]), TRUE)
    /\ FinishRequest(e)
    /\ UNCHANGED <<est, queue, rxOpen, lastTaken, replyRx>>
    /\ UNCHANGED <<threadVars, managerVars>>
    /\ UNCHANGED libVars

\* The worker is inside a model operation (Det or Rec is running).
InModelOp(e) ==
    \/ wpc[e] \in {"detect", "recognize"}
    \/ wpc[e] = "recloop" /\ regions[e] # <<>>

\* A panic inside a model operation is not caught: the worker thread unwinds.
WorkerPanic(e) ==
    /\ InModelOp(e)
    /\ ExitWorker(e)
    /\ UNCHANGED <<est, lastTaken, reply, replyRx>>
    /\ UNCHANGED <<threadVars, managerVars>>
    /\ UNCHANGED libVars

Worker(e) ==
    \/ WorkerLoadOk(e)
    \/ WorkerLoadFail(e)
    \/ WorkerTake(e)
    \/ WorkerDetect(e)
    \/ WorkerRecognize(e)
    \/ WorkerProcessDetect(e)
    \/ WorkerProcessRecognize(e)
    \/ WorkerProcessSend(e)
    \/ WorkerPanic(e)

\* ------------------------------------------------------------------ callers
\* OcrEngine::detect_text / get_text_rects / get_text_images / recognize_text /
\* process_ocr, first half: create the reply channel and send the request.
\* A failed send returns EngineError at once (`?`).
Enqueue(i, e, kind, img) ==
    IF SendOk(e)
    THEN /\ queue' = [queue EXCEPT ![e] = Append(@, Request(i, kind, img))]
         /\ replyRx' = [replyRx EXCEPT ![i] = TRUE]
         /\ replyTx' = [replyTx EXCEPT ![i] = TRUE]
         /\ cpc' = [cpc EXCEPT ![i] = "waiting"]
         /\ UNCHANGED ret
    ELSE /\ cpc' = [cpc EXCEPT ![i] = "returned"]
         /\ ret' = [ret EXCEPT ![i] = EngineTerminated]
         /\ UNCHANGED <<queue, replyRx, replyTx>>

\* A caller thread starts and calls an operation on an engine it holds a
\* reference to.
Call(i, e) ==
    /\ i = nextId
    /\ cpc[i] = "idle"
    /\ est[e] = "live"
    /\ slot # e
    /\ nextId' = nextId + 1
    /\ \E kind \in Kinds : \E img \in InputsFor(kind) :
          /\ cop' = [cop EXCEPT ![i] = [kind |-> kind, image |-> Request(i, kind, img).image,
                                        eng |-> e, via |-> "direct"]]
          /\ Enqueue(i, e, kind, img)
    /\ UNCHANGED <<est, rxOpen, wpc, cur, regions, results, active, lastTaken>>
    /\ UNCHANGED <<reply, sends, managerVars>>
    /\ UNCHANGED libVars

\* Second half of every engine operation: result_rx.recv(). It yields the
\* first message of the reply channel, or EngineError when the channel is
\* empty and its sender is gone; the engine operation returns that value and
\* result_rx is dropped.
CanRecv(i) == reply[i] # <<>> \/ ~replyTx[i]

Recv(i) ==
    /\ cpc[i] = "waiting"
    /\ CanRecv(i)
    /\ ret' = [ret EXCEPT ![i] = IF reply[i] # <<>> THEN Head(reply[i]) ELSE EngineRecvFailed]
    /\ reply' = [reply EXCEPT ![i] = <<>>]
    /\ replyRx' = [replyRx EXCEPT ![i] = FALSE]
    /\ sends' = [sends EXCEPT ![i] = IF replyTx[i] THEN @ ELSE 0]
    /\ cpc' = [cpc EXCEPT ![i] = "returned"]
    /\ UNCHANGED <<engineVars, replyTx, cop, nextId, managerVars>>
    /\ UNCHANGED libVars

\* Faulty variant of Return: the mutex guard of a manager operation outlives
\* the operation.
ReturnKeepsGuard(i) ==
    /\ cpc[i] = "returned"
    /\ cpc' = [cpc EXCEPT ![i] = "done"]
    /\ cop' = [cop EXCEPT ![i] = NoOp]
    /\ ret' = [ret EXCEPT ![i] = NoRet]
    /\ lock' = lock
    /\ UNCHANGED <<engineVars, replyVars, nextId, ipc, iold, inst, slot, lastInit>>
    /\ UNCHANGED libVars

\* The operation returns to its caller: the locals of a manager operation
\* (its mutex guard) are dropped, the caller thread takes the value and ends.
Return(i) ==
    /\ cpc[i] = "returned"
    /\ cpc' = [cpc EXCEPT ![i] = "done"]
    /\ cop' = [cop EXCEPT ![i] = NoOp]
    /\ ret' = [ret EXCEPT ![i] = NoRet]
    /\ lock' = IF lock = ByCall(i) THEN Unlocked ELSE lock
    /\ UNCHANGED <<engineVars, replyVars, nextId, ipc, iold, inst, slot, lastInit>>
    /\ UNCHANGED libVars

\* No caller thread is inside an operation.
NoCallInProgress == \A i \in Ids : cpc[i] \in {"idle", "done"}

\* ------------------------------------------------------------------ Drop
\* Faulty variant of AfterShutdownSend: Drop joins without sending Shutdown.
NoShutdownSend(e) == queue[e]

\* Faulty variant of JoinDone: Drop does not wait for the worker thread.
JoinSkipped(e) == TRUE

\* impl Drop for OcrEngine, first statement:
\* `let _ = self.request_sender.send(OcrRequest::Shutdown);`
AfterShutdownSend(e) == IF SendOk(e) THEN Append(queue[e], Shutdown) ELSE queue[e]

\* `handle.join()` returns when the worker thread has ended.
JoinDone(e) == wpc[e] = "exited"

\* Drop of an engine owned by the application. It needs the engine
\* exclusively, so no call on it is in progress.
DropStart(e) ==
    /\ est[e] = "live"
    /\ slot # e
    /\ ipc[e] = "idle"
    /\ NoCallInProgress
    /\ queue' = [queue EXCEPT ![e] = AfterShutdownSend(e)]
    /\ est' = [est EXCEPT ![e] = "dropping"]
    /\ UNCHANGED <<rxOpen, wpc, cur, regions, results, active, lastTaken>>
    /\ UNCHANGED <<replyVars, threadVars, managerVars>>
    /\ UNCHANGED libVars

DropJoin(e) ==
    /\ est[e] = "dropping"
    /\ slot # e
    /\ JoinDone(e)
    /\ est' = [est EXCEPT ![e] = "dropped"]
    /\ UNCHANGED <<queue, rxOpen, wpc, cur, regions, results, active, lastTaken>>
    /\ UNCHANGED <<replyVars, threadVars, managerVars>>
    /\ UNCHANGED libVars

\* ------------------------------------------------------------------ one engine, many callers
Next ==
    \/ Worker(AppEngine)
    \/ \E i \in Ids : Call(i, AppEngine)
    \/ \E i \in Ids : Recv(i)
    \/ \E i \in Ids : Return(i)
    \/ DropStart(AppEngine)
    \/ DropJoin(AppEngine)

Spec == Init /\ [][Next]_vars

\* ------------------------------------------------------------------ OcrEngineManager
\* Faulty variant of HeldDuringCall: the guard is released before the engine is called.
GuardReleasedEarly(i) == Unlocked

\* The guard a manager operation takes is a local of the operation: the
\* mutex stays locked by the calling thread until the operation returns.
HeldDuringCall(i) == ByCall(i)

\* Faulty variant of MgrCall: an unset INSTANCE is not an error, the
\* operation goes on to the lock.
MgrCallIgnoresUnset(i) ==
    /\ i = nextId
    /\ cpc[i] = "idle"
    /\ nextId' = nextId + 1
    /\ cop' = [cop EXCEPT ![i] = [kind |-> "None", image |-> NoImage, eng |-> 0, via |-> "manager"]]
    /\ cpc' = [cpc EXCEPT ![i] = "mlock"]
    /\ UNCHANGED ret
    /\ UNCHANGED <<engineVars, replyVars, managerVars>>
    /\ UNCHANGED libVars

\* OcrEngineManager::detect_text / get_text_rects / get_text_images /
\* recognize_text / process_ocr, `Self::get_instance()?`: an unset INSTANCE
\* is EngineError("OCR engine not initialized"). The five operations differ
\* only in the engine operation they call once the guard is held, so which
\* one the thread is in is drawn there.
MgrCall(i) ==
    /\ i = nextId
    /\ cpc[i] = "idle"
    /\ nextId' = nextId + 1
    /\ cop' = [cop EXCEPT ![i] = [kind |-> "None", image |-> NoImage, eng |-> 0, via |-> "manager"]]
    /\ IF inst
       THEN /\ cpc' = [cpc EXCEPT ![i] = "mlock"]
            /\ UNCHANGED ret
       ELSE /\ cpc' = [cpc EXCEPT ![i] = "returned"]
            /\ ret' = [ret EXCEPT ![i] = EngineNotInitialized]
    /\ UNCHANGED <<engineVars, replyVars, managerVars>>
    /\ UNCHANGED libVars

\* ... `instance.lock()`, `guard.as_ref().ok_or_else(..)?`, then the engine's
\* operation is called with the guard held.
MgrLock(i) ==
    /\ cpc[i] = "mlock"
    /\ lock = Unlocked
    /\ lock' = HeldDuringCall(i)
    /\ IF slot = 0
       THEN /\ cpc' = [cpc EXCEPT ![i] = "returned"]
            /\ ret' = [ret EXCEPT ![i] = EngineNotInitialized]
            /\ UNCHANGED <<queue, replyRx, replyTx, cop>>
       ELSE /\ \E kind \in Kinds : \E img \in MgrInputsFor(kind) :
                  /\ cop' = [cop EXCEPT ![i] = [kind |-> kind, image |-> Request(i, kind, img).image,
                                                eng |-> slot, via |-> "manager"]]
                  /\ Enqueue(i, slot, kind, img)
    /\ UNCHANGED <<est, rxOpen, wpc, cur, regions, results, active, lastTaken>>
    /\ UNCHANGED <<reply, sends, nextId, ipc, iold, inst, slot, lastInit>>
    /\ UNCHANGED libVars

\* OcrEngineManager::initialize*: `OcrEngine::new*(..)?` spawns the worker of
\* a new engine, then `INSTANCE.get_or_init(..)`.
InitNew(e) ==
    /\ ipc[e] = "idle"
    /\ est[e] = "none"
    /\ \A d \in Engines : d < e => est[d] # "none"
    /\ est' = [est EXCEPT ![e] = "live"]
    /\ rxOpen' = [rxOpen EXCEPT ![e] = TRUE]
    /\ wpc' = [wpc EXCEPT ![e] = "loading"]
    /\ inst' = TRUE
    /\ ipc' = [ipc EXCEPT ![e] = "ilock"]
    /\ UNCHANGED <<queue, cur, regions, results, active, lastTaken>>
    /\ UNCHANGED <<replyVars, threadVars, iold, slot, lock, lastInit>>
    /\ UNCHANGED libVars

\* ... `instance.lock()`, `*guard = Some(engine)`: the assignment drops the
\* engine found in the slot (Drop sends Shutdown, then joins) with the
\* guard held.
InitLock(e) ==
    /\ ipc[e] = "ilock"
    /\ lock = Unlocked
    /\ lastInit' = e
    /\ iold' = [iold EXCEPT ![e] = slot]
    /\ IF slot = 0
       THEN /\ slot' = e
            /\ ipc' = [ipc EXCEPT ![e] = "done"]
            /\ UNCHANGED <<queue, est, lock>>
       ELSE /\ queue' = [queue EXCEPT ![slot] = AfterShutdownSend(slot)]
            /\ est' = [est EXCEPT ![slot] = "dropping"]
            /\ lock' = ByInit(e)
            /\ ipc' = [ipc EXCEPT ![e] = "ijoin"]
            /\ UNCHANGED slot
    /\ UNCHANGED <<rxOpen, wpc, cur, regions, results, active, lastTaken>>
    /\ UNCHANGED <<replyVars, threadVars, inst>>
    /\ UNCHANGED libVars

\* ... the join of the dropped engine's worker returns, the new engine is in
\* the slot, the guard is released and initialize* returns Ok(()).
InitJoin(e) ==
    /\ ipc[e] = "ijoin"
    /\ JoinDone(iold[e])
    /\ est' = [est EXCEPT ![iold[e]] = "dropped"]
    /\ slot' = e
    /\ lock' = Unlocked
    /\ ipc' = [ipc EXCEPT ![e] = "done"]
    /\ UNCHANGED <<queue, rxOpen, wpc, cur, regions, results, active, lastTaken>>
    /\ UNCHANGED <<replyVars, threadVars, iold, inst, lastInit>>
    /\ UNCHANGED libVars

\* Process start: INSTANCE is unset and no engine exists.
ProcessStart ==
    /\ InitCommon
    /\ est = [e \in Engines |-> "none"]
    /\ rxOpen = [e \in Engines |-> FALSE]
    /\ wpc = [e \in Engines |-> "none"]

MgrInit ==
    /\ ProcessStart
    /\ LibIdle

MgrNext ==
    \/ \E e \in Engines : Worker(e)
    \/ \E i \in Ids : MgrCall(i)
    \/ \E i \in Ids : MgrLock(i)
    \/ \E i \in Ids : Recv(i)
    \/ \E i \in Ids : Return(i)
    \/ \E e \in Engines : InitNew(e)
    \/ \E e \in Engines : InitLock(e)
    \/ \E e \in Engines : InitJoin(e)

MgrSpec == MgrInit /\ [][MgrNext]_vars

\* Scheduling: a spawned worker thread keeps running, and a join whose thread
\* has ended returns.
FairSpec ==
    /\ Spec
    /\ WF_vars(Worker(AppEngine))
    /\ WF_vars(DropJoin(AppEngine))

\* ------------------------------------------------------------------ properties
\* What an operation computes from its own input when it runs alone.
Smallest(S) == CHOOSE k \in S : \A l \in S : k <= l

ProcessOcrResult(img) ==
    LET found == FindTextImg(img)
        text(k) == PredictStr(AsImage(found.items[k]))
        bad == {k \in 1..Len(found.items) : ~text(k).ok}
    IN  IF ~found.ok THEN found
        ELSE IF bad # {} THEN text(Smallest(bad))
        ELSE Ok([k \in 1..Len(found.items) |-> text(k).items[1]])

ResultOf(kind, img) ==
    IF kind = "GetTextRects" THEN FindTextRect(img)
    ELSE IF kind \in {"DetectText", "GetTextImages"} THEN FindTextImg(img)
    ELSE IF kind = "RecognizeText" THEN PredictStr(img)
    ELSE ProcessOcrResult(img)

\* The tags carried by a result.
TagsOf(msg) == IF msg.ok THEN {msg.items[k].tag : k \in 1..Len(msg.items)} ELSE {msg.err.tag}

\* C1: a call racing with other calls gets the result computed from its own
\* input, or an EngineError; results are never swapped between callers, and a
\* message in a reply channel is always computed from that channel's request.
C1_OwnResult ==
    /\ \A i \in Ids : cpc[i] = "returned" =>
          \/ ret[i] \in EngineErrors
          \/ ret[i] = ResultOf(cop[i].kind, cop[i].image)
    /\ \A i \in Ids : \A k \in 1..Len(reply[i]) : TagsOf(reply[i][k]) \subseteq {i}

\* Two calls race on one engine; one has returned a non-empty Ok result while
\* the other is still waiting.
C1_Witness ==
    \E i, j \in Ids :
        /\ i # j
        /\ cpc[i] = "returned" /\ ret[i].ok /\ ret[i].items # <<>>
        /\ cpc[j] = "waiting"

\* C2: for every request it handles the worker makes exactly one send on the
\* request's result_sender: never more than one, and one when the arm has
\* ended (the sender is gone, the worker runs on, the caller has not received).
C2_ExactlyOneSend ==
    \A i \in Ids :
        /\ sends[i] <= 1
        /\ (cpc[i] = "waiting" /\ ~replyTx[i] /\ wpc[cop[i].eng] # "exited") => sends[i] = 1

\* C3: in ProcessOcr the worker never goes on to a region behind the first one
\* whose recognition fails, and the caller gets that first error, never Ok.
FirstBad(img) == {k \in 1..Len(img.regs) : img.regs[k] = "err" /\ \A l \in 1..(k - 1) : img.regs[l] = "ok"}

C3_FirstErrorAborts ==
    /\ \A e \in Engines :
          (wpc[e] = "recloop" /\ regions[e] # <<>>) =>
              \A k \in FirstBad(cur[e].image) : Head(regions[e]).idx <= k
    /\ \A i \in Ids :
          (cpc[i] = "returned" /\ cop[i].kind = "ProcessOcr" /\ cop[i].image.det = "ok") =>
              \A k \in FirstBad(cop[i].image) :
                  ret[i] = Err("rec", i, k) \/ ret[i] \in EngineErrors

\* A ProcessOcr whose first region fails and which has regions behind it has
\* returned the error of that region.
C3_Witness ==
    \E i \in Ids :
        /\ cpc[i] = "returned" /\ cop[i].kind = "ProcessOcr"
        /\ Len(cop[i].image.regs) >= 2 /\ FirstBad(cop[i].image) = {1}
        /\ ret[i] = Err("rec", i, 1)

\* C4: a drop that has finished has joined the worker (the worker has exited,
\* its queue is gone), nothing is sent or delivered on a reply channel
\* afterwards, and a drop that has started always finishes, also when the
\* worker had exited before.
C4_CleanShutdown ==
    /\ [](\A e \in Engines : est[e] = "dropped" =>
              /\ wpc[e] = "exited" /\ ~rxOpen[e]
              /\ queue[e] = <<>> /\ cur[e] = NoReq)
    /\ [][\A e \in Engines : est[e] = "dropped" =>
              /\ wpc'[e] = "exited"
              /\ reply' = reply /\ sends' = sends]_vars
    /\ (est[AppEngine] = "dropping") ~> (est[AppEngine] = "dropped")

\* An engine that served a request has been dropped.
C4_Witness == \E e \in Engines : est[e] = "dropped" /\ lastTaken[e] # 0

\* C5: an operation called on an engine whose worker has exited returns
\* EngineError in the step of the call: nothing is queued and the caller never
\* waits for a reply.
C5_FailsAtEnqueue ==
    [][\A i \in Ids :
          (cpc[i] = "idle" /\ cpc'[i] # "idle" /\ wpc[cop'[i].eng] = "exited") =>
              /\ cpc'[i] = "returned"
              /\ ret'[i] = EngineTerminated
              /\ queue' = queue
              /\ ~replyRx'[i]]_vars

\* A call found the worker gone.
C5_Witness == \E i \in Ids : cpc[i] = "returned" /\ ret[i] = EngineTerminated

\* C6: when the worker has exited, the recv of a caller still waiting can
\* return (its reply channel has a message or no sender left), and what the
\* caller returns without a message is EngineError.
C6_CallerReleased ==
    /\ [](\A i \in Ids : (cpc[i] = "waiting" /\ wpc[cop[i].eng] = "exited") => CanRecv(i))
    /\ [][\A i \in Ids :
             (cpc[i] = "waiting" /\ wpc[cop[i].eng] = "exited" /\ reply[i] = <<>>
              /\ cpc'[i] # "waiting") => ret'[i] = EngineRecvFailed]_vars

\* A caller whose request was lost with the worker has returned EngineError.
C6_Witness == \E i \in Ids : cpc[i] = "returned" /\ ret[i] = EngineRecvFailed

\* C7: callers are tagged in the order they enqueue; a queue holds its
\* requests in that order, every queued request was enqueued after the one the
\* worker took last, and the request in hand is the one taken last.
C7_Fifo ==
    \A e \in Engines :
        /\ \A k \in 1..Len(queue[e]) :
              queue[e][k].kind # "Shutdown" => queue[e][k].id > lastTaken[e]
        /\ \A k, l \in 1..Len(queue[e]) :
              (k < l /\ queue[e][l].kind # "Shutdown") => queue[e][k].id < queue[e][l].id
        /\ cur[e].id \in {0, lastTaken[e]}

\* Both callers are in their calls: the first has its reply, the worker has
\* taken the second request.
C7_Witness ==
    \E e \in Engines :
        /\ lastTaken[e] = 2 /\ cur[e].id = 2
        /\ cpc[1] = "waiting" /\ reply[1] # <<>>
        /\ cpc[2] = "waiting"

\* C8: an engine's worker is inside at most one request at a time, and a
\* model operation runs only for the request the worker has in hand.
C8_OneModelOp ==
    \A e \in Engines :
        /\ active[e] <= 1
        /\ InModelOp(e) => (active[e] = 1 /\ cur[e].id # 0)
        /\ active[e] = 0 => (cur[e] = NoReq /\ ~InModelOp(e))

\* A model operation runs while another request waits in the queue.
C8_Witness == \E e \in Engines : InModelOp(e) /\ TagsIn(queue[e]) # {}

\* A manager-routed request is outstanding from its enqueue until the worker
\* has sent a reply for it or has dropped it.
Outstanding(i) ==
    /\ cop[i].via = "manager"
    /\ cpc[i] = "waiting"
    /\ replyTx[i] /\ sends[i] = 0

C10_LastInitWins ==
    /\ \A e \in Engines : est[e] = "live" => (slot = e \/ ipc[e] \in {"ilock", "ijoin"})
    /\ (lock = Unlocked /\ lastInit # 0) => slot = lastInit
    /\ \A e \in Engines : ipc[e] = "ijoin" =>
          /\ lock = ByInit(e) /\ slot = iold[e] /\ iold[e] # 0
          /\ wpc[iold[e]] # "exited" =>
                \E k \in 1..Len(queue[iold[e]]) : queue[iold[e]][k] = Shutdown
          /\ \A i \in Ids : ~(cop[i].eng = iold[e] /\ cpc[i] = "waiting")
    /\ \A e \in Engines : (ipc[e] = "done" /\ iold[e] # 0) =>
          /\ est[iold[e]] = "dropped" /\ wpc[iold[e]] = "exited"
          /\ slot # iold[e]

\* An initialize* has returned after replacing an engine that had served a
\* request.
C10_Witness ==
    \E e \in Engines : ipc[e] = "done" /\ iold[e] # 0 /\ lastTaken[iold[e]] # 0 /\ slot = e

\* ------------------------------------------------------------------ Det: merging of text boxes
\* Bounds of the boxes the merge is run on.
GridW == 3           \* columns of the image grid the boxes lie in
GridH == 2           \* rows of that grid
MaxBoxes == 3        \* boxes in one list
MaxThreshold == 1    \* merge thresholds range over -MaxThreshold..MaxThreshold

\* imageproc Rect::at(left, top).of_size(width, height), width and height > 0
Rect(l, t, w, h) == [left |-> l, top |-> t, width |-> w, height |-> h]
Right(r) == r.left + r.width - 1
Bottom(r) == r.top + r.height - 1

\* The u32 word. It is 2^32 in the code; the checker's integers end below
\* 2^31, so the word is kept two bits narrower. Every coordinate used here
\* is far below either.
U32Modulus == 1073741824

\* `as i32` of a u32: the upper half of the word becomes negative
AsI32(n) == IF n >= U32Modulus \div 2 THEN n - U32Modulus ELSE n

\* imageproc Rect::right and Rect::bottom as they compute: left + (width as
\* i32) - 1 and top + (height as i32) - 1, which are Right and Bottom for
\* the widths and heights below 2^31
RectRight(r) == r.left + AsI32(r.width) - 1
RectBottom(r) == r.top + AsI32(r.height) - 1

Min2(a, b) == IF a <= b THEN a ELSE b
Max2(a, b) == IF a >= b THEN a ELSE b

\* Faulty variant of VerticalThreshold: the product rounded to the nearest integer
VerticalThresholdRounded(minHeight) == (minHeight * 4 + 5) \div 10

\* `(min_height as f32 * 0.4) as i32`: the product truncated towards zero
VerticalThreshold(minHeight) ==
    IF minHeight >= 0 THEN (minHeight * 4) \div 10 ELSE 0 - (((0 - minHeight) * 4) \div 10)

\* Det::boxes_overlap_with_threshold
BoxesOverlapWithThreshold(a, b, threshold) ==
    LET a_left == a.left - threshold
        a_right == RectRight(a) + threshold
        b_left == b.left - threshold
        b_right == RectRight(b) + threshold
        horizontal_overlap == ~(a_right < b_left \/ b_right < a_left)
        vertical_threshold == VerticalThreshold(Min2(AsI32(a.height), AsI32(b.height)))
        vertical_close == IF a.top <= b.top
                          THEN RectBottom(a) + vertical_threshold >= b.top
                          ELSE RectBottom(b) + vertical_threshold >= a.top
    IN  horizontal_overlap /\ vertical_close

\* Faulty variant of MergeBoxes: the second box is dropped.
MergeBoxesKeepFirst(a, b) == a

\* Faulty variant of MergeBoxes: the vertical extent of the first box is kept.
MergeBoxesFirstHeight(a, b) ==
    LET left == Min2(a.left, b.left)
        right == Max2(Right(a), Right(b))
    IN  Rect(left, a.top, right - left + 1, a.height)

\* Det::merge_boxes
MergeBoxes(a, b) ==
    LET left == Min2(a.left, b.left)
        right == Max2(Right(a), Right(b))
        top == Min2(a.top, b.top)
        bottom == Max2(Bottom(a), Bottom(b))
    IN  Rect(left, top, right - left + 1, bottom - top + 1)

\* Vec::remove(i), i counted from 1
RemoveAt(s, i) == SubSeq(s, 1, i - 1) \o SubSeq(s, i + 1, Len(s))

\* Det::merge_overlapping_boxes, the inner `while i < boxes_to_process.len()`
RECURSIVE ScanBoxes(_, _, _, _, _)
ScanBoxes(merged, todo, i, mergedAny, threshold) ==
    IF i > Len(todo) THEN [merged |-> merged, todo |-> todo, mergedAny |-> mergedAny]
    ELSE IF BoxesOverlapWithThreshold(merged, todo[i], threshold)
         THEN ScanBoxes(MergeBoxes(merged, todo[i]), RemoveAt(todo, i), i, TRUE, threshold)
         ELSE ScanBoxes(merged, todo, i + 1, mergedAny, threshold)

\* A merge of one pass: a merged box goes to the result at once and is not
\* put back in front of the boxes to process
RECURSIVE ProcessBoxesOnePass(_, _, _)
ProcessBoxesOnePass(todo, result, threshold) ==
    IF todo = <<>> THEN result
    ELSE LET scan == ScanBoxes(Head(todo), Tail(todo), 1, FALSE, threshold)
         IN  ProcessBoxesOnePass(scan.todo, Append(result, scan.merged), threshold)

\* Det::merge_overlapping_boxes, the outer `while !boxes_to_process.is_empty()`
RECURSIVE ProcessBoxes(_, _, _)
ProcessBoxes(todo, result, threshold) ==
    IF todo = <<>> THEN result
    ELSE LET scan == ScanBoxes(Head(todo), Tail(todo), 1, FALSE, threshold)
         IN  IF scan.mergedAny
             THEN ProcessBoxes(<<scan.merged>> \o scan.todo, result, threshold)
             ELSE ProcessBoxes(scan.todo, Append(result, scan.merged), threshold)

\* Det::merge_overlapping_boxes
MergeOverlappingBoxes(boxes, threshold) ==
    IF boxes = <<>> THEN boxes ELSE ProcessBoxes(boxes, <<>>, threshold)

\* The boxes the merge is run on: one pixel thin or spanning the grid, in
\* each direction, at every place of the grid; the lists of them; the
\* thresholds (with_merge_threshold takes any i32).
GridBoxes ==
    {Rect(l, t, w, h) : l \in 0..(GridW - 1), t \in 0..(GridH - 1), w \in {1, GridW}, h \in {1, GridH}}

BoxesInGrid == {r \in GridBoxes : Right(r) < GridW /\ Bottom(r) < GridH}

BoxSeqs == UNION {[1..n -> BoxesInGrid] : n \in 0..MaxBoxes}

Thresholds == (0 - MaxThreshold)..MaxThreshold

\* Two boxes of a text line, 12 px apart, merged with threshold 3.
TextLinePair == [boxes |-> <<Rect(0, 0, 10, 10), Rect(12, 1, 10, 10)>>, threshold |-> 3]

\* Two boxes of height 4, one row apart: 0.4 * 4 = 1.6, and the slack is 1.
StackedPair == [boxes |-> <<Rect(0, 0, 4, 4), Rect(0, 5, 4, 4)>>, threshold |-> 0]

\* A box one pixel wide inside a box seven pixels wide, with a threshold
\* that shrinks the spans instead of expanding them.
EnclosedPair == [boxes |-> <<Rect(3, 0, 1, 1), Rect(0, 0, 7, 1)>>, threshold |-> 0 - 1]

MergeInputs ==
    {[boxes |-> bs, threshold |-> t] : bs \in BoxSeqs, t \in Thresholds}
        \cup {TextLinePair, StackedPair, EnclosedPair}

\* A list of boxes is given to merge_overlapping_boxes ...
MergeInit ==
    /\ ProcessStart
    /\ phase = "merge"
    /\ input \in MergeInputs
    /\ output = <<>>

\* ... which returns the merged list.
MergeRun ==
    /\ phase = "merge"
    /\ phase' = "merged"
    /\ output' = MergeOverlappingBoxes(input.boxes, input.threshold)
    /\ UNCHANGED input
    /\ UNCHANGED <<engineVars, replyVars, threadVars, managerVars>>

MergeNext == MergeRun

MergeSpec == MergeInit /\ [][MergeNext]_vars

\* The pixels a box covers, and those a list of boxes covers.
Cells(r) == (r.left..Right(r)) \X (r.top..Bottom(r))
UnionCells(bs) == UNION {Cells(bs[i]) : i \in 1..Len(bs)}
BoxSet(bs) == {bs[i] : i \in 1..Len(bs)}

\* C11: merging the merged list again with the same threshold returns the
\* same set of boxes, and no two boxes of a merged list are mergeable.
C11_MergeIdempotent ==
    phase = "merged" =>
        /\ BoxSet(MergeOverlappingBoxes(output, input.threshold)) = BoxSet(output)
        /\ \A i, j \in 1..Len(output) :
              i # j => ~BoxesOverlapWithThreshold(output[i], output[j], input.threshold)

\* C12: the merged list is not longer than the input, every input box lies
\* inside a box of the merged list, and the area covered does not shrink.
C12_MergeMonotone ==
    phase = "merged" =>
        /\ Len(output) <= Len(input.boxes)
        /\ \A i \in 1..Len(input.boxes) :
              \E j \in 1..Len(output) : Cells(input.boxes[i]) \subseteq Cells(output[j])
        /\ Cardinality(UnionCells(output)) >= Cardinality(UnionCells(input.boxes))

\* Three boxes became two, and the merged list covers more than the input did.
C12_Witness ==
    /\ phase = "merged"
    /\ Len(input.boxes) = 3 /\ Len(output) = 2
    /\ Cardinality(UnionCells(output)) > Cardinality(UnionCells(input.boxes))

\* C13: the text-line pair merges into the box (0, 0, 22, 11), and a pair of
\* mergeable boxes is replaced by the one box that reaches from the smaller
\* left and top to the larger right and bottom.
C13_UnionBoundingRect ==
    phase = "merged" =>
        /\ input = TextLinePair => output = <<Rect(0, 0, 22, 11)>>
        /\ (/\ Len(input.boxes) = 2
            /\ BoxesOverlapWithThreshold(input.boxes[1], input.boxes[2], input.threshold)) =>
              LET a == input.boxes[1]
                  b == input.boxes[2]
              IN  /\ Len(output) = 1
                  /\ output[1].left = Min2(a.left, b.left)
                  /\ output[1].top = Min2(a.top, b.top)
                  /\ Right(output[1]) = Max2(Right(a), Right(b))
                  /\ Bottom(output[1]) = Max2(Bottom(a), Bottom(b))

\* The text-line pair has been merged.
C13_Witness == phase = "merged" /\ input = TextLinePair /\ Len(output) = 1

\* ------------------------------------------------------------------ Rec: decoding of the recognition output
\* Bound of the recognition outputs the decoder is run on.
MaxSteps == 3        \* timesteps (sequence_length) of one recognition output

\* Scores are f32 in the code; here they are counted in hundredths.
\* Rec::PUNCTUATIONS, the members that occur in the tables used here
Punctuations == {".", ","}

\* Rec::is_punctuation
IsPunctuation(ch) == ch \in Punctuations

\* A Rec as far as decoding reads it: keys, min_score, punct_min_score
RecOf(keys, minScore, punctMinScore) ==
    [keys |-> keys, min_score |-> minScore, punct_min_score |-> punctMinScore]

\* output_data[offset] behind the guard `offset < output_data.len()`;
\* offsets count from 0
InData(data, offset) == offset < Len(data)

\* run_model, `for j in 0..vocab_size`: the first class with the largest
\* score above max_score's start value 0.0
RECURSIVE ArgMaxFrom(_, _, _, _, _)
ArgMaxFrom(out, i, j, max_idx, max_score) ==
    IF j >= out.vocab_size THEN [idx |-> max_idx, score |-> max_score]
    ELSE LET offset == i * out.vocab_size + j
         IN  IF InData(out.data, offset) /\ out.data[offset + 1] > max_score
             THEN ArgMaxFrom(out, i, j + 1, j, out.data[offset + 1])
             ELSE ArgMaxFrom(out, i, j + 1, max_idx, max_score)

ArgMax(out, i) == ArgMaxFrom(out, i, 0, 0, 0)

\* A decoder that takes the blank class 0 for a character too
HasCharacterWithBlank(rec, max_idx) == max_idx >= 0 /\ max_idx < Len(rec.keys)

\* `max_idx > 0 && max_idx < self.keys.len()`: the class has a character
HasCharacter(rec, max_idx) == max_idx > 0 /\ max_idx < Len(rec.keys)

\* A fallback that takes every punctuation character, whatever its score
PunctFallbackAnyScore(rec, ch, max_score) == IsPunctuation(ch)

\* `max_score > self.punct_min_score * 0.8`
PunctFallback(rec, ch, max_score) ==
    IsPunctuation(ch) /\ max_score * 10 > rec.punct_min_score * 8

NoChar == "none"

\* run_model, one iteration of `for i in 0..sequence_length`; st holds
\* results and last_char. An emitted entry also records its timestep.
DecodeStep(rec, out, i, st) ==
    LET am == ArgMax(out, i)
    IN  IF HasCharacter(rec, am.idx)
        THEN LET ch == rec.keys[am.idx + 1]
                 threshold == IF IsPunctuation(ch) THEN rec.punct_min_score ELSE rec.min_score
                 entry == [ch |-> ch, score |-> am.score, step |-> i]
             IN  IF am.score > threshold
                 THEN [results |-> IF st.last_char # ch \/ IsPunctuation(ch)
                                   THEN Append(st.results, entry) ELSE st.results,
                       last_char |-> ch]
                 ELSE IF PunctFallback(rec, ch, am.score)
                      THEN [results |-> Append(st.results, entry), last_char |-> st.last_char]
                      ELSE [results |-> st.results, last_char |-> NoChar]
        ELSE [results |-> st.results, last_char |-> NoChar]

RECURSIVE FirstPassFrom(_, _, _, _)
FirstPassFrom(rec, out, i, st) ==
    IF i >= out.sequence_length THEN st
    ELSE FirstPassFrom(rec, out, i + 1, DecodeStep(rec, out, i, st))

FirstPass(rec, out) == FirstPassFrom(rec, out, 0, [results |-> <<>>, last_char |-> NoChar]).results

\* Faulty variant of SkipSame: only one following entry is skipped.
SkipSameOnce(emitted, i) ==
    IF i + 1 <= Len(emitted) /\ emitted[i + 1].ch = emitted[i].ch THEN i + 1 ELSE i

\* run_model, the second loop: of consecutive entries with the same
\* punctuation character only the first is kept; i counts from 1
RECURSIVE SkipSame(_, _)
SkipSame(emitted, i) ==
    IF i + 1 <= Len(emitted) /\ emitted[i + 1].ch = emitted[i].ch THEN SkipSame(emitted, i + 1) ELSE i

RECURSIVE SecondPassFrom(_, _, _)
SecondPassFrom(emitted, i, final_results) ==
    IF i > Len(emitted) THEN final_results
    ELSE SecondPassFrom(emitted,
                        (IF IsPunctuation(emitted[i].ch) THEN SkipSame(emitted, i) ELSE i) + 1,
                        Append(final_results, emitted[i]))

SecondPass(emitted) == SecondPassFrom(emitted, 1, <<>>)

\* Rec::run_model from the output tensor on: Ok(final_results)
Decode(rec, out) == SecondPass(FirstPass(rec, out))

\* Rec::predict_with_confidence: the text and the average score, kept as
\* total_score over the number of characters (0.0 for no character)
RECURSIVE TotalScore(_)
TotalScore(char_scores) ==
    IF char_scores = <<>> THEN 0 ELSE Head(char_scores).score + TotalScore(Tail(char_scores))

PredictWithConfidence(char_scores) ==
    IF char_scores = <<>> THEN [text |-> <<>>, total |-> 0, count |-> 1]
    ELSE [text |-> [k \in 1..Len(char_scores) |-> char_scores[k].ch],
          total |-> TotalScore(char_scores), count |-> Len(char_scores)]

\* Rec::MIN_SCORE_DEFAULT and Rec::PUNCT_MIN_SCORE_DEFAULT, in hundredths
MinScoreDefault == 60
PunctMinScoreDefault == 10

\* The character table of a vocabulary file "A", "B", "." with the
\* placeholder in front (Rec::new takes the table as it is).
TableKeys == <<" ", "A", "B", ".">>

\* Scores around the thresholds: at 0.8 x punct_min_score, at
\* punct_min_score, at min_score, and a confident one.
ScoreLevels == {(PunctMinScoreDefault * 8) \div 10, PunctMinScoreDefault, MinScoreDefault, 90}

\* The output tensor of shape (1, T, V) in which timestep i has the given
\* score at the given class and 0.0 elsewhere.
TensorOf(steps, V) ==
    [sequence_length |-> Len(steps), vocab_size |-> V,
     data |-> [n \in 1..(Len(steps) * V) |->
                  IF (n - 1) % V = steps[(n - 1) \div V + 1].idx
                  THEN steps[(n - 1) \div V + 1].score ELSE 0]]

\* The arg-max class and score of each of n timesteps
StepSeqs(V, n) == [1..n -> [idx : 0..(V - 1), score : ScoreLevels]]

\* The same tensor with its last value missing from output_data.
Truncated(out) == [out EXCEPT !.data = SubSeq(@, 1, Len(@) - 1)]

\* The recogniser of the decoding example: thresholds 0.5 and 0.1, and the
\* per-timestep arg-max (1,0.9) (1,0.9) (0,0.99) (2,0.8) (3,0.05) (3,0.30).
ExampleSteps ==
    <<[idx |-> 1, score |-> 90], [idx |-> 1, score |-> 90], [idx |-> 0, score |-> 99],
      [idx |-> 2, score |-> 80], [idx |-> 3, score |-> 5], [idx |-> 3, score |-> 30]>>

ExampleInput == [rec |-> RecOf(TableKeys, 50, 10), out |-> TensorOf(ExampleSteps, Len(TableKeys))]

DefaultRec == RecOf(TableKeys, MinScoreDefault, PunctMinScoreDefault)

\* Det::run_model, the grey value of a probability (in hundredths):
\* `(output_data[index] * 255.0).min(255.0) as u8`
Gray(v) == Max2(0, Min2((v * 255) \div 100, 255))

\* Det::run_model, `ImageBuffer::from_fn(width, height, ..)`: the
\* probability map read from output_data, rows pad_w apart
ProbabilityMap(output_data, width, height, pad_w) ==
    [p \in (0..(width - 1)) \X (0..(height - 1)) |->
        IF p[2] * pad_w + p[1] < Len(output_data)
        THEN Gray(output_data[p[2] * pad_w + p[1] + 1]) ELSE 0]

DetW == 2            \* width and padded width of a detection output
DetH == 2            \* height of a detection output

\* A model has run. The recognition model's output is of the table's width,
\* or the same with a value missing, or one class wider than the table, or
\* the example; the detection model's output has up to width x height values.
DecodeInit ==
    /\ ProcessStart
    /\ output = <<>>
    /\ \/ /\ phase = "decode"
          /\ \/ \E n \in 0..MaxSteps : \E s \in StepSeqs(Len(TableKeys), n) :
                    input = [rec |-> DefaultRec, out |-> TensorOf(s, Len(TableKeys))]
             \/ \E n \in 1..MaxSteps : \E s \in StepSeqs(Len(TableKeys), n) :
                    input = [rec |-> DefaultRec, out |-> Truncated(TensorOf(s, Len(TableKeys)))]
             \/ \E n \in 0..MaxSteps : \E s \in StepSeqs(Len(TableKeys) + 1, n) :
                    input = [rec |-> DefaultRec, out |-> TensorOf(s, Len(TableKeys) + 1)]
             \/ input = ExampleInput
       \/ /\ phase = "det"
          /\ \E n \in 0..(DetW * DetH) : \E d \in [1..n -> {0, 50, 100}] :
                input = [width |-> DetW, height |-> DetH, pad_w |-> DetW, data |-> d]

\* Rec::run_model decodes the tensor into Ok(final_results), and
\* predict_with_confidence turns the characters into text and score.
DecodeRun ==
    /\ phase = "decode"
    /\ phase' = "decoded"
    /\ output' = [ok |-> TRUE,
                  char_scores |-> Decode(input.rec, input.out),
                  confident |-> PredictWithConfidence(Decode(input.rec, input.out))]
    /\ UNCHANGED input
    /\ UNCHANGED <<engineVars, replyVars, threadVars, managerVars>>

\* Det::run_model builds the probability map and returns Ok(img).
DetProbabilityMap ==
    /\ phase = "det"
    /\ phase' = "mapped"
    /\ output' = [ok |-> TRUE,
                  img |-> ProbabilityMap(input.data, input.width, input.height, input.pad_w)]
    /\ UNCHANGED input
    /\ UNCHANGED <<engineVars, replyVars, threadVars, managerVars>>

DecodeNext == DecodeRun \/ DetProbabilityMap

DecodeSpec == DecodeInit /\ [][DecodeNext]_vars

\* The characters and scores of a decoded list, without the timesteps.
CharScores(char_scores) ==
    [k \in 1..Len(char_scores) |-> <<char_scores[k].ch, char_scores[k].score>>]

\* C14: the example decodes to 'A' (0.9), 'B' (0.8), '.' (0.30): the text is
\* "AB." and the confidence is the mean of the three scores.
C14_WorkedExample ==
    (phase = "decoded" /\ input = ExampleInput) =>
        /\ CharScores(output.char_scores) = <<<<"A", 90>>, <<"B", 80>>, <<".", 30>>>>
        /\ output.confident.text = <<"A", "B", ".">>
        /\ output.confident.total = 90 + 80 + 30
        /\ output.confident.count = 3

\* The example has been decoded into three characters.
C14_Witness == phase = "decoded" /\ input = ExampleInput /\ Len(output.char_scores) = 3

\* The timesteps of the decoded tensor, and the arg-max character of one
\* (NoChar for the blank and for a class without a character).
Timesteps == 0..(input.out.sequence_length - 1)

StepChar(i) ==
    IF HasCharacter(input.rec, ArgMax(input.out, i).idx)
    THEN input.rec.keys[ArgMax(input.out, i).idx + 1] ELSE NoChar

StepScore(i) == ArgMax(input.out, i).score

ClassThreshold(ch) ==
    IF IsPunctuation(ch) THEN input.rec.punct_min_score ELSE input.rec.min_score

AboveThreshold(i) == StepChar(i) # NoChar /\ StepScore(i) > ClassThreshold(StepChar(i))

\* Timesteps a..b are a maximal run of the character ch above its threshold.
IsRun(a, b, ch) ==
    /\ a <= b
    /\ \A i \in a..b : StepChar(i) = ch /\ AboveThreshold(i)
    /\ (a - 1) \in Timesteps => ~(StepChar(a - 1) = ch /\ AboveThreshold(a - 1))
    /\ (b + 1) \in Timesteps => ~(StepChar(b + 1) = ch /\ AboveThreshold(b + 1))

\* The number of output characters that come from timesteps a..b.
EmittedIn(a, b) ==
    Cardinality({k \in 1..Len(output.char_scores) : output.char_scores[k].step \in a..b})

\* C15: every run of timesteps with the same character above its threshold,
\* ordinary or punctuation, yields exactly one character of the output.
C15_RunYieldsOne ==
    phase = "decoded" =>
        \A a, b \in Timesteps : \A ch \in {"A", "B", ".", " "} :
            IsRun(a, b, ch) => EmittedIn(a, b) = 1

\* Timestep i has a character at or below its class threshold; it is in the
\* fallback band when it is punctuation above 0.8 x the punctuation threshold.
AtOrBelowThreshold(i) == StepChar(i) # NoChar /\ StepScore(i) <= ClassThreshold(StepChar(i))

InFallbackBand(i) ==
    IsPunctuation(StepChar(i)) /\ StepScore(i) * 10 > input.rec.punct_min_score * 8

OutputSteps == {output.char_scores[k].step : k \in 1..Len(output.char_scores)}

\* The character of timestep i is in the output: as an entry of its own, or
\* as the entry of the same punctuation character right before it, into
\* which the second pass folds it.
EmittedAt(i) ==
    \E k \in 1..Len(output.char_scores) :
        /\ output.char_scores[k].ch = StepChar(i)
        /\ output.char_scores[k].step <= i
        /\ \A s \in OutputSteps : ~(output.char_scores[k].step < s /\ s <= i)
        /\ output.char_scores[k].step < i => IsPunctuation(StepChar(i))

\* C16: a character at or below its class threshold is never emitted, unless
\* it is punctuation with a score above 0.8 x the punctuation threshold, and
\* then it is emitted.
C16_Thresholding ==
    phase = "decoded" =>
        \A i \in Timesteps :
            AtOrBelowThreshold(i) =>
                IF InFallbackBand(i) THEN EmittedAt(i) ELSE i \notin OutputSteps

\* Decoded: an ordinary character at its threshold was dropped and a
\* punctuation character at its threshold was emitted by the fallback.
C16_Witness ==
    /\ phase = "decoded"
    /\ \E i, j \in Timesteps :
        /\ AtOrBelowThreshold(i) /\ ~InFallbackBand(i) /\ ~IsPunctuation(StepChar(i))
        /\ i \notin OutputSteps
        /\ AtOrBelowThreshold(j) /\ InFallbackBand(j) /\ j \in OutputSteps

\* ---------------------------------------------------------------------------
\* Region extraction (efficient_cropping.rs)
\* ---------------------------------------------------------------------------
ImgW == 6            \* width of the source image
ImgH == 5            \* height of the source image
MaxRects == 5        \* rectangles of one batch call

\* std::thread::available_parallelism() of the machine
Cores == {1, 2}

\* DynamicImage variants: the two pixel_copy_crop copies itself, and another
Formats == {"ImageRgba8", "ImageRgb8", "ImageLuma8"}

\* An image: its variant, its dimensions and its pixels by (x, y).
\* ImageBuffer::new gives every pixel the value 0.
ZeroPixel == 0

\* The source image: every pixel has a value of its own, as in
\* tests::create_test_image.
SourceImage(format) ==
    [format |-> format, width |-> ImgW, height |-> ImgH,
     px |-> [p \in (0..(ImgW - 1)) \X (0..(ImgH - 1)) |-> 1 + p[1] + p[2] * ImgW]]

\* `as u32` of an i32: a negative n becomes U32Modulus + n
AsU32(n) == n % U32Modulus

\* `x_start + x` on u32 without overflow checks: the sum wraps around
WrappingAdd(a, b) == (a + b) % U32Modulus

\* DynamicImage::crop_imm: the view is cut to the image's bounds
CropImm(image, x, y, width, height) ==
    LET cx == Min2(x, image.width)
        cy == Min2(y, image.height)
        cw == Min2(width, image.width - cx)
        chh == Min2(height, image.height - cy)
    IN  [format |-> image.format, width |-> cw, height |-> chh,
         px |-> [p \in (0..(cw - 1)) \X (0..(chh - 1)) |-> image.px[<<cx + p[1], cy + p[2]>>]]]

\* EfficientCropper::standard_crop
StandardCrop(image, rect) ==
    CropImm(image, AsU32(rect.left), AsU32(rect.top), rect.width, rect.height)

\* A pixel copy that reads the source from its origin, not from the rectangle
PixelCopyCropFromOrigin(image, rect) ==
    [format |-> image.format, width |-> rect.width, height |-> rect.height,
     px |-> [p \in (0..(rect.width - 1)) \X (0..(rect.height - 1)) |-> image.px[p]]]

\* EfficientCropper::pixel_copy_crop
PixelCopyCrop(image, rect) ==
    IF image.format \in {"ImageRgba8", "ImageRgb8"}
    THEN [format |-> image.format, width |-> rect.width, height |-> rect.height,
          px |-> [p \in (0..(rect.width - 1)) \X (0..(rect.height - 1)) |->
                    LET src_x == WrappingAdd(AsU32(rect.left), p[1])
                        src_y == WrappingAdd(AsU32(rect.top), p[2])
                    IN  IF src_x < image.width /\ src_y < image.height
                        THEN image.px[<<src_x, src_y>>] ELSE ZeroPixel]]
    ELSE StandardCrop(image, rect)

\* pixel_copy_crop built with overflow checks: `x_start + x` or
\* `y_start + y` panics when the sum leaves the u32 range
PixelCopyOverflows(image, rect) ==
    /\ image.format \in {"ImageRgba8", "ImageRgb8"}
    /\ \/ \E x \in 0..(rect.width - 1) : AsU32(rect.left) + x >= U32Modulus
       \/ \E y \in 0..(rect.height - 1) : AsU32(rect.top) + y >= U32Modulus

\* `rect.width() * rect.height()`
Area(rect) == rect.width * rect.height

IsWholeImage(image, rect) ==
    rect.left = 0 /\ rect.top = 0 /\ rect.width = image.width /\ rect.height = image.height

\* `crop_area < total_area / 10`
IsSmall(image, rect) == Area(rect) < (image.width * image.height) \div 10

\* EfficientCropper::smart_crop
SmartCrop(image, rect) ==
    IF IsWholeImage(image, rect) THEN image
    ELSE IF IsSmall(image, rect) THEN PixelCopyCrop(image, rect)
    ELSE StandardCrop(image, rect)

\* smart_crop panics where its pixel_copy_crop does
SmartCropPanics(image, rect, checks) ==
    checks /\ ~IsWholeImage(image, rect) /\ IsSmall(image, rect) /\ PixelCopyOverflows(image, rect)

SerialCropPanics(image, rects, checks) ==
    \E k \in 1..Len(rects) : SmartCropPanics(image, rects[k], checks)

\* `rects.iter().map(|rect| Self::smart_crop(image, rect)).collect()`
SerialCrop(image, rects) == [k \in 1..Len(rects) |-> SmartCrop(image, rects[k])]

RECURSIVE TotalArea(_)
TotalArea(rects) == IF rects = <<>> THEN 0 ELSE Area(Head(rects)) + TotalArea(Tail(rects))

\* batch_crop: `rects.len() < 4 || avg_area > image_area / 8`
UsesSerial(image, rects) ==
    IF Len(rects) < 4 THEN TRUE
    ELSE TotalArea(rects) \div Len(rects) > (image.width * image.height) \div 8

\* parallel_batch_crop: one task per rectangle for up to 2 x cores
\* rectangles, else par_chunks of rects.len() / cpu_cores
BatchSize(n, cores) == IF n <= cores * 2 THEN 1 ELSE Max2(n \div cores, 1)

NumChunks(n, cores) == (n + BatchSize(n, cores) - 1) \div BatchSize(n, cores)

ChunkOf(rects, c, cores) ==
    SubSeq(rects, (c - 1) * BatchSize(Len(rects), cores) + 1,
           Min2(c * BatchSize(Len(rects), cores), Len(rects)))

\* A collect that takes the parts in the order the tasks finished
RECURSIVE ReassembleAsFinished(_, _)
ReassembleAsFinished(finished, c) ==
    IF finished = <<>> THEN <<>>
    ELSE Head(finished).images \o ReassembleAsFinished(Tail(finished), c + 1)

\* rayon's collect into a Vec: the parts in the order of the source slice,
\* whichever task finished first
RECURSIVE Reassemble(_, _)
Reassemble(finished, c) ==
    IF c > Len(finished) THEN <<>>
    ELSE (CHOOSE f \in {finished[k] : k \in 1..Len(finished)} : f.part = c).images
         \o Reassemble(finished, c + 1)

\* optimized_batch_crop: the indices of the small group; the others are large
SmallIdx(image, rects) == {k \in 1..Len(rects) : IsSmall(image, rects[k])}

\* optimized_batch_crop, `results[idx] = Some(result)` over small_results
\* chained with large_results, then unwrapped
ByIndex(image, rects, finished) ==
    [k \in 1..Len(rects) |->
        IF k \in SmallIdx(image, rects)
        THEN (CHOOSE f \in {finished[j] : j \in 1..Len(finished)} : f.part = k).images[1]
        ELSE StandardCrop(image, rects[k])]

\* Every rectangle inside the source image
RectsInside ==
    {Rect(l, t, w, h) : l \in 0..(ImgW - 1), t \in 0..(ImgH - 1), w \in 1..ImgW, h \in 1..ImgH}
        \cap {r \in [left : 0..ImgW, top : 0..ImgH, width : 1..ImgW, height : 1..ImgH] :
                r.left + r.width <= ImgW /\ r.top + r.height <= ImgH}

\* The rectangles of the batches: two small ones and one that is not small
BatchRects == {Rect(0, 0, 1, 1), Rect(ImgW - 1, ImgH - 1, 1, 1), Rect(1, 1, 2, 2)}

BatchOps == {"batch_crop", "parallel_batch_crop", "optimized_batch_crop"}

Finished == {output.finished[k].part : k \in 1..Len(output.finished)}

\* Rectangles of up to 2 x 2 that are not fully inside the source image
RectsOutside ==
    {r \in [left : (0 - 1)..ImgW, top : (0 - 1)..ImgH, width : 1..2, height : 1..2] :
        r.left < 0 \/ r.top < 0 \/ r.left + r.width > ImgW \/ r.top + r.height > ImgH}

\* A call of one of the four extraction functions is about to run: on a
\* rectangle inside the image, on a batch of such rectangles, or on one
\* rectangle that is not inside the image. `checks` says whether the build
\* has overflow checks (debug) or not (release).
CropInit ==
    /\ ProcessStart
    /\ phase = "crop"
    /\ output = [finished |-> <<>>, images |-> <<>>]
    /\ \/ \E r \in RectsInside, f \in Formats :
            input = [op |-> "smart_crop", image |-> SourceImage(f), rects |-> <<r>>,
                     cores |-> 1, checks |-> FALSE]
       \/ \E n \in 0..MaxRects : \E rs \in [1..n -> BatchRects] : \E o \in BatchOps, c \in Cores :
            input = [op |-> o, image |-> SourceImage("ImageRgba8"), rects |-> rs,
                     cores |-> c, checks |-> FALSE]
       \/ \E r \in RectsOutside, o \in BatchOps \cup {"smart_crop"}, k \in BOOLEAN :
            input = [op |-> o, image |-> SourceImage("ImageRgba8"), rects |-> <<r>>,
                     cores |-> 1, checks |-> k]

\* The call returns the images, or it panics
CropDone(images, panics) ==
    /\ phase' = IF panics THEN "panicked" ELSE "cropped"
    /\ output' = [output EXCEPT !.images = IF panics THEN <<>> ELSE images]
    /\ UNCHANGED input
    /\ UNCHANGED <<engineVars, replyVars, threadVars, managerVars>>

\* smart_crop
SmartCropCall ==
    /\ phase = "crop" /\ input.op = "smart_crop"
    /\ CropDone(<<SmartCrop(input.image, input.rects[1])>>,
                SmartCropPanics(input.image, input.rects[1], input.checks))

\* batch_crop with no rectangle (Vec::new()) or on its serial branch
BatchCropSerial ==
    /\ phase = "crop" /\ input.op = "batch_crop"
    /\ UsesSerial(input.image, input.rects)
    /\ CropDone(SerialCrop(input.image, input.rects),
                SerialCropPanics(input.image, input.rects, input.checks))

RunsParallel ==
    \/ input.op = "parallel_batch_crop"
    \/ input.op = "batch_crop" /\ ~UsesSerial(input.image, input.rects)

\* parallel_batch_crop: a rayon task crops the rectangles of part c; its
\* panic becomes the panic of the call
WorkerCropChunk(c) ==
    /\ phase = "crop" /\ RunsParallel
    /\ c \in 1..NumChunks(Len(input.rects), input.cores)
    /\ c \notin Finished
    /\ IF SerialCropPanics(input.image, ChunkOf(input.rects, c, input.cores), input.checks)
       THEN phase' = "panicked" /\ output' = [output EXCEPT !.images = <<>>]
       ELSE /\ phase' = phase
            /\ output' = [output EXCEPT !.finished = Append(@,
                    [part |-> c,
                     images |-> SerialCrop(input.image, ChunkOf(input.rects, c, input.cores))])]
    /\ UNCHANGED input
    /\ UNCHANGED <<engineVars, replyVars, threadVars, managerVars>>

\* parallel_batch_crop: collect() returns once every task has finished
ParallelCollect ==
    /\ phase = "crop" /\ RunsParallel
    /\ Finished = 1..NumChunks(Len(input.rects), input.cores)
    /\ CropDone(Reassemble(output.finished, 1), FALSE)

\* optimized_batch_crop: a rayon task copies the small rectangle idx; its
\* panic becomes the panic of the call
WorkerPixelCopy(idx) ==
    /\ phase = "crop" /\ input.op = "optimized_batch_crop"
    /\ idx \in SmallIdx(input.image, input.rects)
    /\ idx \notin Finished
    /\ IF input.checks /\ PixelCopyOverflows(input.image, input.rects[idx])
       THEN phase' = "panicked" /\ output' = [output EXCEPT !.images = <<>>]
       ELSE /\ phase' = phase
            /\ output' = [output EXCEPT !.finished = Append(@,
                    [part |-> idx, images |-> <<PixelCopyCrop(input.image, input.rects[idx])>>])]
    /\ UNCHANGED input
    /\ UNCHANGED <<engineVars, replyVars, threadVars, managerVars>>

\* optimized_batch_crop: small_results is complete; the large rectangles are
\* cropped one after the other and the results put back by index
OptimizedFinish ==
    /\ phase = "crop" /\ input.op = "optimized_batch_crop"
    /\ Finished = SmallIdx(input.image, input.rects)
    /\ CropDone(ByIndex(input.image, input.rects, output.finished), FALSE)

CropNext ==
    \/ SmartCropCall
    \/ BatchCropSerial
    \/ \E c \in 1..MaxRects : WorkerCropChunk(c)
    \/ ParallelCollect
    \/ \E idx \in 1..MaxRects : WorkerPixelCopy(idx)
    \/ OptimizedFinish

CropSpec == CropInit /\ [][CropNext]_vars

\* The pixel of a cropped image at local (x, y) is the source pixel at
\* (rect.left + x, rect.top + y), and the image has the rectangle's size.
IsExtraction(cropped, image, rect) ==
    /\ cropped.width = rect.width /\ cropped.height = rect.height
    /\ DOMAIN cropped.px = (0..(rect.width - 1)) \X (0..(rect.height - 1))
    /\ \A x \in 0..(rect.width - 1), y \in 0..(rect.height - 1) :
            cropped.px[<<x, y>>] = image.px[<<rect.left + x, rect.top + y>>]

\* C17: for every rectangle inside the image, whichever branch smart_crop
\* takes, the result has the rectangle's dimensions and its pixel at (x, y)
\* is the source pixel at (rect.left + x, rect.top + y).
C17_ExtractionCorrect ==
    (phase = "cropped" /\ input.op = "smart_crop" /\ input.rects[1] \in RectsInside) =>
        IsExtraction(output.images[1], input.image, input.rects[1])

\* A pixel-copy extraction of a small rectangle away from the origin is done.
C17_Witness ==
    /\ phase = "cropped" /\ input.op = "smart_crop"
    /\ IsSmall(input.image, input.rects[1])
    /\ input.rects[1].left > 0 /\ input.rects[1].top > 0
    /\ input.image.format = "ImageRgb8"
    /\ Len(output.images) = 1

\* C18: batch_crop, parallel_batch_crop and optimized_batch_crop return one
\* image per rectangle, and the i-th image is the extraction of the i-th
\* rectangle, as smart_crop produces it, whatever the order in which the
\* parallel tasks finish.
C18_BatchPreservesOrder ==
    (phase = "cropped" /\ input.op \in BatchOps
        /\ \A i \in 1..Len(input.rects) : input.rects[i] \in RectsInside) =>
        /\ Len(output.images) = Len(input.rects)
        /\ \A i \in 1..Len(input.rects) : output.images[i] = SmartCrop(input.image, input.rects[i])

\* A parallel batch of different rectangles in several chunks is done, and
\* the task of the first chunk was not the first to finish.
C18_Witness ==
    /\ phase = "cropped" /\ input.op = "parallel_batch_crop"
    /\ Len(input.rects) = MaxRects
    /\ BatchSize(Len(input.rects), input.cores) > 1
    /\ Len(output.finished) > 1
    /\ output.finished[1].part # 1
    /\ input.rects[1] # input.rects[MaxRects]

\* ---------------------------------------------------------------------------
\* Recogniser construction (rec.rs, from_file / from_bytes / from_bytes_with_keys)
\* ---------------------------------------------------------------------------
MaxKeys == 2         \* characters of a vocabulary file

KeyFiles == UNION {[1..n -> {"A", ".", "\n"}] : n \in 0..MaxKeys}

\* The vocabulary dimensions a model file can have
ModelVocab == 1..(MaxKeys + 3)

Constructors == {"from_file", "from_bytes", "from_bytes_with_keys"}

IsKeyChar(x) == x # "\n" /\ x # "\r"

\* `" ".chars().chain(keys_content.chars().filter(..)).chain(" ".chars())`
KeysOf(keys_content) == <<" ">> \o SelectSeq(keys_content, IsKeyChar) \o <<" ">>

\* The body the three constructors share: the interpreter is made first,
\* then the vocabulary is read, then the Rec is returned.
Construct(model_ok, keys_ok, keys_content) ==
    IF ~model_ok THEN [ok |-> FALSE, err |-> "MNNError", rec |-> RecOf(<<>>, 0, 0)]
    ELSE IF ~keys_ok THEN [ok |-> FALSE, err |-> "IOError", rec |-> RecOf(<<>>, 0, 0)]
    ELSE [ok |-> TRUE, err |-> "none",
          rec |-> RecOf(KeysOf(keys_content), MinScoreDefault, PunctMinScoreDefault)]

\* A model (readable or not, with its vocabulary dimension) and a
\* vocabulary (readable or not) are given to one of the constructors
LoadInit ==
    /\ ProcessStart
    /\ phase = "load"
    /\ output = <<>>
    /\ input \in [ctor : Constructors, model_ok : BOOLEAN, vocab_size : ModelVocab,
                  keys_ok : BOOLEAN, keys_content : KeyFiles]

\* Rec::from_file
FromFile ==
    /\ phase = "load" /\ input.ctor = "from_file"
    /\ phase' = "loaded"
    /\ output' = Construct(input.model_ok, input.keys_ok, input.keys_content)
    /\ UNCHANGED input
    /\ UNCHANGED <<engineVars, replyVars, threadVars, managerVars>>

\* Rec::from_bytes
FromBytes ==
    /\ phase = "load" /\ input.ctor = "from_bytes"
    /\ phase' = "loaded"
    /\ output' = Construct(input.model_ok, input.keys_ok, input.keys_content)
    /\ UNCHANGED input
    /\ UNCHANGED <<engineVars, replyVars, threadVars, managerVars>>

\* Rec::from_bytes_with_keys; an unreadable vocabulary is invalid UTF-8,
\* reported as an IOError too
FromBytesWithKeys ==
    /\ phase = "load" /\ input.ctor = "from_bytes_with_keys"
    /\ phase' = "loaded"
    /\ output' = Construct(input.model_ok, input.keys_ok, input.keys_content)
    /\ UNCHANGED input
    /\ UNCHANGED <<engineVars, replyVars, threadVars, managerVars>>

LoadNext == FromFile \/ FromBytes \/ FromBytesWithKeys

LoadSpec == LoadInit /\ [][LoadNext]_vars

\* C19: a recogniser that construction returns has a CharacterTable as long
\* as the model's vocabulary dimension; a mismatch is reported by the
\* constructor as an error.
C19_LoadValidatesTable ==
    (phase = "loaded" /\ output.ok) => Len(output.rec.keys) = input.vocab_size

\* The recognition output has fewer than T x V values, or an arg-max class
\* has no entry in the CharacterTable.
MalformedRecOutput ==
    \/ Len(input.out.data) < input.out.sequence_length * input.out.vocab_size
    \/ \E i \in Timesteps : ArgMax(input.out, i).idx >= Len(input.rec.keys)

\* The detection output has fewer values than the probability map reads.
MalformedDetOutput ==
    Len(input.data) < (input.height - 1) * input.pad_w + input.width

\* C20: postprocessing a malformed recognition or detection output returns
\* an error to the caller, never a normal result.
C20_MalformedIsError ==
    /\ (phase = "decoded" /\ MalformedRecOutput) => ~output.ok
    /\ (phase = "mapped" /\ MalformedDetOutput) => ~output.ok

\* The part of a rectangle that lies in the image (of no width or height
\* when the rectangle misses the image).
ClampRect(image, rect) ==
    Rect(Max2(0, rect.left), Max2(0, rect.top),
         Min2(rect.left + rect.width, image.width) - Max2(0, rect.left),
         Min2(rect.top + rect.height, image.height) - Max2(0, rect.top))

IsEmptyImage(cropped) == cropped.width = 0 \/ cropped.height = 0

\* The image returned for a rectangle is what rejecting or clamping allows:
\* no pixel at all, or the extraction of the rectangle's part in the image.
RejectedOrClamped(cropped, image, rect) ==
    \/ IsEmptyImage(cropped)
    \/ /\ ClampRect(image, rect).width > 0 /\ ClampRect(image, rect).height > 0
       /\ IsExtraction(cropped, image, ClampRect(image, rect))

\* C21: a rectangle that is not fully inside the image is rejected (the call
\* fails or returns no pixel for it) or clamped to the image, in smart_crop
\* and in every batch mode.
C21_OutOfRangeRejectedOrClamped ==
    phase = "cropped" =>
        \A k \in 1..Len(input.rects) :
            input.rects[k] \notin RectsInside =>
                RejectedOrClamped(output.images[k], input.image, input.rects[k])

\* ---------------------------------------------------------------------------
\* Detection postprocessing (det.rs, find_box and bounding_rect)
\* ---------------------------------------------------------------------------
MapW == 8            \* width of the probability map
MapH == 8            \* height of the probability map
MaxContours == 2     \* outer contours found in one map

\* Det::MIN_BOX_SIZE and Det::RECT_BORDER_SIZE
MinBoxSize == 5
RectBorderSize == 10

\* An i32 sum or difference outside the i32 range
OverflowsI32(n) == n < 0 - U32Modulus \div 2 \/ n >= U32Modulus \div 2

\* ... wraps around where the build has no overflow checks
WrapI32(n) == ((n + U32Modulus \div 2) % U32Modulus) - U32Modulus \div 2

\* Det::bounding_rect, the fold over the points
RECURSIVE Extremes(_, _)
Extremes(points, acc) ==
    IF points = <<>> THEN acc
    ELSE Extremes(Tail(points),
                  [x_min |-> Min2(acc.x_min, Head(points).x), x_max |-> Max2(acc.x_max, Head(points).x),
                   y_min |-> Min2(acc.y_min, Head(points).y), y_max |-> Max2(acc.y_max, Head(points).y)])

\* A bounding_rect that lets boxes of MIN_BOX_SIZE and less through
BoundingRectUnfiltered(points) ==
    IF points = <<>> THEN [some |-> FALSE, rect |-> Rect(0, 0, 0, 0)]
    ELSE LET e == Extremes(Tail(points), [x_min |-> points[1].x, x_max |-> points[1].x,
                                          y_min |-> points[1].y, y_max |-> points[1].y])
         IN  [some |-> e.x_max > e.x_min /\ e.y_max > e.y_min,
              rect |-> Rect(e.x_min, e.y_min, e.x_max - e.x_min, e.y_max - e.y_min)]

\* Det::bounding_rect: None for no point and for a width or height of
\* MIN_BOX_SIZE or less, else the box from (x_min, y_min) of size
\* (x_max - x_min, y_max - y_min)
BoundingRect(points) ==
    IF points = <<>> THEN [some |-> FALSE, rect |-> Rect(0, 0, 0, 0)]
    ELSE LET e == Extremes(Tail(points), [x_min |-> points[1].x, x_max |-> points[1].x,
                                          y_min |-> points[1].y, y_max |-> points[1].y])
             w == e.x_max - e.x_min
             h == e.y_max - e.y_min
         IN  IF w <= MinBoxSize \/ h <= MinBoxSize
             THEN [some |-> FALSE, rect |-> Rect(0, 0, 0, 0)]
             ELSE [some |-> TRUE, rect |-> Rect(e.x_min, e.y_min, w, h)]

\* find_box, the border expansion of one box x. The i32 arithmetic wraps or,
\* with overflow checks, panics; Rect::of_size panics on a width or height 0.
ExpandBox(x, border, width, height, checks) ==
    LET b == AsI32(border)
        left == Max2(WrapI32(x.left - b), 0)
        top == Max2(WrapI32(x.top - b), 0)
        right == Min2(WrapI32(Right(x) + b), width - 1)
        bottom == Min2(WrapI32(Bottom(x) + b), height - 1)
        rect_width == AsU32(WrapI32(WrapI32(right - left) + 1))
        rect_height == AsU32(WrapI32(WrapI32(bottom - top) + 1))
        overflow == \/ OverflowsI32(x.left - b) \/ OverflowsI32(x.top - b)
                    \/ OverflowsI32(Right(x) + b) \/ OverflowsI32(Bottom(x) + b)
                    \/ OverflowsI32(right - left) \/ OverflowsI32(WrapI32(right - left) + 1)
                    \/ OverflowsI32(bottom - top) \/ OverflowsI32(WrapI32(bottom - top) + 1)
    IN  [panic |-> (checks /\ overflow) \/ rect_width = 0 \/ rect_height = 0,
         rect |-> Rect(left, top, rect_width, rect_height)]

\* find_box: the bounding boxes of the outer contours that pass the size
\* filter, each expanded by the border
FindBox(contours, border, width, height, checks) ==
    LET kept == SelectSeq([k \in 1..Len(contours) |-> BoundingRect(contours[k])],
                          LAMBDA o : o.some)
        expanded == [k \in 1..Len(kept) |-> ExpandBox(kept[k].rect, border, width, height, checks)]
    IN  [panic |-> \E k \in 1..Len(expanded) : expanded[k].panic,
         boxes |-> [k \in 1..Len(expanded) |-> expanded[k].rect]]

\* Contours of two points each, inside the map, and the contour of no point
ContourPoints == [x : {0, 1, MapW - 1}, y : {0, MapH - 1}]
Contours == {<<>>} \cup [1..2 -> ContourPoints]

\* Border sizes: none, one pixel, the default, and the u32 values around
\* the ends of the i32 range and at the end of the u32 range
SmallBorders == {0, 1, RectBorderSize}
HugeBorders ==
    {U32Modulus \div 2 - 1, U32Modulus \div 2, U32Modulus - MinBoxSize - 1, U32Modulus - 1}

\* The probability map has been built and its contours traced. The merge
\* step is run for the border sizes of everyday use.
FindBoxInit ==
    /\ ProcessStart
    /\ phase = "find_box"
    /\ output = <<>>
    /\ \E n \in 0..MaxContours : \E cs \in [1..n -> Contours] :
         \/ \E bs \in SmallBorders, m \in BOOLEAN :
              input = [contours |-> cs, rect_border_size |-> bs, merge_boxes |-> m,
                       merge_threshold |-> 1, width |-> MapW, height |-> MapH, checks |-> FALSE]
         \/ \E bs \in HugeBorders, k \in BOOLEAN :
              input = [contours |-> cs, rect_border_size |-> bs, merge_boxes |-> FALSE,
                       merge_threshold |-> 1, width |-> MapW, height |-> MapH, checks |-> k]

\* Det::find_text_rect from find_box on
DetFindTextRect ==
    /\ phase = "find_box"
    /\ LET found == FindBox(input.contours, input.rect_border_size, input.width, input.height,
                            input.checks)
       IN  IF found.panic
           THEN phase' = "panicked" /\ output' = <<>>
           ELSE /\ phase' = "boxes"
                /\ output' = IF input.merge_boxes
                             THEN MergeOverlappingBoxes(found.boxes, input.merge_threshold)
                             ELSE found.boxes
    /\ UNCHANGED input
    /\ UNCHANGED <<engineVars, replyVars, threadVars, managerVars>>

FindBoxNext == DetFindTextRect

FindBoxSpec == FindBoxInit /\ [][FindBoxNext]_vars

\* C22: every rectangle that detection postprocessing returns, merged or
\* not, has a positive width and height and lies inside the image.
C22_BoxesInsideImage ==
    phase = "boxes" =>
        \A k \in 1..Len(output) :
            /\ output[k].width > 0 /\ output[k].height > 0
            /\ 0 <= output[k].left /\ 0 <= output[k].top
            /\ Right(output[k]) <= input.width - 1
            /\ Bottom(output[k]) <= input.height - 1

\* merge_overlapping_boxes run on lists that hold chains of boxes: the lists
\* of MergeInputs, which hold every box of the grid in every order.
ChainSpec == MergeInit /\ [][MergeNext]_vars

\* Input boxes i and j are mergeable as they stand in the input list.
InputsMergeable(i, j) ==
    BoxesOverlapWithThreshold(input.boxes[i], input.boxes[j], input.threshold)

\* For every input box, the input boxes it is mergeable with.
MergeableWith ==
    [i \in 1..Len(input.boxes) |-> {j \in 1..Len(input.boxes) : InputsMergeable(i, j)}]

\* The input boxes reached from the set S of them by chains of pairwise
\* mergeable inputs; adj is MergeableWith.
RECURSIVE ChainFrom(_, _)
ChainFrom(S, adj) ==
    LET T == S \cup UNION {adj[i] : i \in S}
    IN  IF T = S THEN S ELSE ChainFrom(T, adj)

\* Rectangle o covers rectangle b.
Covers(o, b) ==
    o.left <= b.left /\ o.top <= b.top /\ Right(o) >= Right(b) /\ Bottom(o) >= Bottom(b)

\* C23: input boxes linked by a chain of pairwise mergeable inputs end up in
\* one rectangle of the output, in whatever order the list holds them.
C23_ChainsMergeTogether ==
    phase = "merged" =>
        LET adj == MergeableWith
        IN  \A i \in 1..Len(input.boxes) :
                LET chain == ChainFrom({i}, adj)
                IN  \E k \in 1..Len(output) :
                        \A j \in chain : Covers(output[k], input.boxes[j])

\* Merged into one rectangle: three boxes of which the first and the second
\* are each mergeable with the third only.
C23_Witness ==
    /\ phase = "merged"
    /\ Len(input.boxes) = 3
    /\ InputsMergeable(1, 3) /\ InputsMergeable(3, 2) /\ ~InputsMergeable(1, 2)
    /\ Len(output) = 1

\* The lists that hold the boxes of the list s in another order.
Reorderings(s) ==
    {[k \in 1..Len(s) |-> s[f[k]]] :
        f \in {g \in [1..Len(s) -> 1..Len(s)] : \A a, b \in 1..Len(s) : g[a] = g[b] => a = b}}

\* C24: the set of rectangles that merge_overlapping_boxes returns does not
\* depend on the order of the input list.
C24_OrderIndependent ==
    phase = "merged" =>
        \A s \in Reorderings(input.boxes) :
            BoxSet(MergeOverlappingBoxes(s, input.threshold)) = BoxSet(output)

\* boxes_overlap_with_threshold on its own: merge_overlapping_boxes is run on
\* every list of two boxes of the grid, and on the pairs named above.
OverlapInputs ==
    {[boxes |-> <<a, b>>, threshold |-> t] : a \in BoxesInGrid, b \in BoxesInGrid, t \in Thresholds}
        \cup {TextLinePair, StackedPair, EnclosedPair}

OverlapInit ==
    /\ ProcessStart
    /\ phase = "merge"
    /\ input \in OverlapInputs
    /\ output = <<>>

OverlapSpec == OverlapInit /\ [][MergeNext]_vars

\* The horizontal span of a box expanded by the threshold on both sides, as
\* the set of its columns; it is empty when the left end is beyond the right end.
Span(b, t) == (b.left - t)..(Right(b) + t)
SpansIntersect(a, b, t) == Span(a, t) \cap Span(b, t) # {}

\* A span whose left end is beyond its right end, with both ends in the other span
Inverted(b, t) == b.left - t > Right(b) + t
EndsInside(a, b, t) == Inverted(a, t) /\ {a.left - t, Right(a) + t} \subseteq Span(b, t)

\* floor(0.4 * m): the largest k with 10 k <= 4 m
Floor04(m) == CHOOSE k \in 0..m : 10 * k <= 4 * m /\ 10 * (k + 1) > 4 * m

\* The box with the smaller top edge reaches the top of the other box, with
\* a slack of floor(0.4 * the smaller height).
VerticallyClose(a, b) ==
    LET upper == IF a.top <= b.top THEN a ELSE b
        lower == IF a.top <= b.top THEN b ELSE a
    IN  Bottom(upper) + Floor04(Min2(a.height, b.height)) >= lower.top

StatedMergeable(a, b, t) == SpansIntersect(a, b, t) /\ VerticallyClose(a, b)

AmendedMergeable(a, b, t) ==
    /\ SpansIntersect(a, b, t) \/ EndsInside(a, b, t) \/ EndsInside(b, a, t)
    /\ VerticallyClose(a, b)

OuterIterationKeepsAbsorbed(pool, result, threshold) ==
    LET scan == ScanBoxes(Head(pool), Tail(pool), 1, FALSE, threshold)
    IN  IF scan.mergedAny
        THEN [boxes_to_process |-> <<scan.merged>> \o Tail(pool), result |-> result]
        ELSE [boxes_to_process |-> scan.todo, result |-> Append(result, scan.merged)]

\* Det::merge_overlapping_boxes, one iteration of the outer while: the first
\* box is removed from the pool, the inner loop absorbs what overlaps it, and
\* it goes back to the front of the pool if it absorbed something and to the
\* result otherwise.
OuterIteration(pool, result, threshold) ==
    LET scan == ScanBoxes(Head(pool), Tail(pool), 1, FALSE, threshold)
    IN  IF scan.mergedAny
        THEN [boxes_to_process |-> <<scan.merged>> \o scan.todo, result |-> result]
        ELSE [boxes_to_process |-> scan.todo, result |-> Append(result, scan.merged)]

\* merge_overlapping_boxes is entered: an empty list is returned at once,
\* otherwise the pool is the input and the result is empty.
MergeLoopInit ==
    /\ ProcessStart
    /\ input \in MergeInputs
    /\ phase = IF input.boxes = <<>> THEN "merge_returned" ELSE "merge_loop"
    /\ output = [boxes_to_process |-> input.boxes, result |-> <<>>]

MergeIterate ==
    /\ phase = "merge_loop"
    /\ output.boxes_to_process # <<>>
    /\ output' = OuterIteration(output.boxes_to_process, output.result, input.threshold)
    /\ UNCHANGED <<phase, input>>
    /\ UNCHANGED <<engineVars, replyVars, threadVars, managerVars>>

MergeReturn ==
    /\ phase = "merge_loop"
    /\ output.boxes_to_process = <<>>
    /\ phase' = "merge_returned"
    /\ UNCHANGED <<input, output>>
    /\ UNCHANGED <<engineVars, replyVars, threadVars, managerVars>>

MergeLoopNext == MergeIterate \/ MergeReturn

\* The loop is sequential code of one thread: it keeps running.
MergeLoopSpec == MergeLoopInit /\ [][MergeLoopNext]_vars /\ WF_vars(MergeLoopNext)

\* The loop computes what MergeOverlappingBoxes computes.
MergeLoopAgrees ==
    phase = "merge_returned" =>
        output.result = MergeOverlappingBoxes(input.boxes, input.threshold)

\* C26: every iteration of the outer loop either emits one box to the result
\* or leaves the result alone and strictly shrinks the pool, and
\* merge_overlapping_boxes returns for every input list.
C26_MergeTerminates ==
    /\ [][MergeIterate =>
            \/ Len(output'.result) = Len(output.result) + 1
            \/ /\ output'.result = output.result
               /\ Len(output'.boxes_to_process) < Len(output.boxes_to_process)]_vars
    /\ <>(phase = "merge_returned")

\* A call that merged its three boxes into one has returned.
C26_Witness ==
    /\ phase = "merge_returned"
    /\ Len(input.boxes) = 3
    /\ Len(output.result) = 1

\* The character of the last output entry that comes from a timestep before
\* i (NoChar when there is none): the last character emitted when timestep i
\* is decoded.
LastEmittedBefore(i) ==
    LET before == {k \in 1..Len(output.char_scores) : output.char_scores[k].step < i}
    IN  IF before = {} THEN NoChar
        ELSE output.char_scores[CHOOSE k \in before : \A m \in before : m <= k].ch

\* C27: a character above its threshold is left out of the output only when
\* it repeats the character emitted last before it; one that differs from
\* the last emitted character is never dropped.
C27_SuppressedOnlyAsRepeat ==
    phase = "decoded" =>
        \A i \in Timesteps :
            (AboveThreshold(i) /\ i \notin OutputSteps) => LastEmittedBefore(i) = StepChar(i)

\* Timestep i has the blank class 0 as its arg-max.
IsBlank(i) == ArgMax(input.out, i).idx = 0

\* Two entries of the output hold the character ch: one from a timestep up
\* to i, and a later one from a timestep after i and up to j.
TwoOccurrences(ch, i, j) ==
    \E k1, k2 \in 1..Len(output.char_scores) :
        /\ k1 < k2
        /\ output.char_scores[k1].ch = ch /\ output.char_scores[k1].step <= i
        /\ output.char_scores[k2].ch = ch
        /\ i < output.char_scores[k2].step /\ output.char_scores[k2].step <= j

\* C28: no output character comes from a blank timestep, and two timesteps
\* with the same character above its threshold, with a blank timestep
\* between them, give two occurrences of the character in the output.
C28_BlankSeparatesRepeats ==
    phase = "decoded" =>
        /\ \A k \in 1..Len(output.char_scores) : ~IsBlank(output.char_scores[k].step)
        /\ \A i, j, m \in Timesteps :
              (/\ i < m /\ m < j
               /\ IsBlank(m)
               /\ AboveThreshold(i) /\ AboveThreshold(j)
               /\ StepChar(i) = StepChar(j))
                  => TwoOccurrences(StepChar(i), i, j)

\* The entries of the first-pass sequence that do not repeat the punctuation
\* character of the entry before them: the first element of every maximal
\* run of one punctuation character, and every non-punctuation entry.
KeptOfFirstPass(first) ==
    {k \in 1..Len(first) :
        k = 1 \/ ~IsPunctuation(first[k].ch) \/ first[k - 1].ch # first[k].ch}

\* The entries of s at the positions in K, in their order
Restrict(s, K) ==
    [m \in 1..Cardinality(K) |-> s[CHOOSE k \in K : Cardinality({x \in K : x <= k}) = m]]

\* C29: the output has no two adjacent entries with the same punctuation
\* character; it is the first-pass sequence with every maximal run of one
\* punctuation character replaced by the first entry of the run, character
\* and score, and with every other entry kept in its place.
C29_PunctuationRunsCollapsed ==
    phase = "decoded" =>
        /\ \A k \in 1..(Len(output.char_scores) - 1) :
              IsPunctuation(output.char_scores[k].ch)
                  => output.char_scores[k + 1].ch # output.char_scores[k].ch
        /\ LET first == FirstPass(input.rec, input.out)
           IN  output.char_scores = Restrict(first, KeptOfFirstPass(first))

\* Decoded: the first pass emitted the same punctuation character three
\* times in a row, next to nothing else, and the output holds it once.
C29_Witness ==
    /\ phase = "decoded"
    /\ Len(FirstPass(input.rec, input.out)) = 3
    /\ \A k \in 1..3 : FirstPass(input.rec, input.out)[k].ch = "."
    /\ Len(output.char_scores) = 1

\* The worker of engine e has ended without ever taking a request. With the
\* engine still alive (no Shutdown was sent) this is the failed model load.
ExitedUnserved(e) == wpc[e] = "exited" /\ lastTaken[e] = 0

\* C30: constructing an engine always ends with a live engine whose worker is
\* started, whether or not the models can be loaded; a worker whose load
\* fails exits without a request taken or a reply sent, and a request on
\* such an engine never waits for good and returns EngineError, never a result.
C30_LoadFailureIsEngineError ==
    /\ [][\A e \in Engines :
             (est[e] = "none" /\ est'[e] # "none") =>
                 est'[e] = "live" /\ rxOpen'[e] /\ wpc'[e] = "loading"]_vars
    /\ [][\A e \in Engines :
             (wpc[e] = "loading" /\ wpc'[e] = "exited") =>
                 /\ ExitedUnserved(e)'
                 /\ reply' = reply
                 /\ ~rxOpen'[e] /\ queue'[e] = <<>>]_vars
    /\ [](\A i \in Ids :
             (cpc[i] = "waiting" /\ ExitedUnserved(cop[i].eng)) => CanRecv(i))
    /\ [](\A i \in Ids :
             (cpc[i] = "returned" /\ cop[i].eng \in Engines /\ ExitedUnserved(cop[i].eng)) =>
                 ret[i] \in {EngineTerminated, EngineRecvFailed})

\* The models of the engine in the manager's slot could not be loaded: the
\* engine is alive, its worker ended with a call waiting, and the call has
\* returned EngineError.
C30_Witness ==
    \E i \in Ids :
        /\ cpc[i] = "returned"
        /\ cop[i].eng \in Engines /\ cop[i].via = "manager"
        /\ est[cop[i].eng] = "live" /\ ExitedUnserved(cop[i].eng)
        /\ ret[i] = EngineRecvFailed

\* ------------------------------------------------------------------ OcrEngineManager, scheduling
\* Every thread keeps running: a worker, a caller in recv or at its return,
\* a thread blocked on the manager mutex once it is free, a join whose
\* thread has ended.
MgrFairSpec ==
    /\ MgrSpec
    /\ \A e \in Engines : WF_vars(Worker(e))
    /\ \A e \in Engines : WF_vars(InitLock(e))
    /\ \A e \in Engines : WF_vars(InitJoin(e))
    /\ \A i \in Ids : WF_vars(MgrLock(i))
    /\ \A i \in Ids : WF_vars(Recv(i))
    /\ \A i \in Ids : WF_vars(Return(i))

\* The worker of engine e has something to do: models to load, a request in
\* hand, or a message in its channel.
WorkerHasWork(e) ==
    \/ wpc[e] \in {"loading", "detect", "recognize", "recloop"}
    \/ wpc[e] = "idle" /\ queue[e] # <<>>

\* C31: the manager never deadlocks. A worker with work can take its step
\* whoever holds the manager lock and never touches the lock; every manager
\* call returns, every initialize* returns (also one that joins the engine
\* it replaces with the lock held), and a lock that is held is released.
C31_ManagerNeverDeadlocks ==
    /\ [](\A e \in Engines : WorkerHasWork(e) => ENABLED Worker(e))
    /\ [][\A e \in Engines : (wpc[e] # "none" /\ wpc'[e] # wpc[e]) => lock' = lock]_vars
    /\ \A i \in Ids : (cpc[i] \in {"mlock", "waiting", "returned"}) ~> (cpc[i] = "done")
    /\ \A e \in Engines : (ipc[e] \in {"ilock", "ijoin"}) ~> (ipc[e] = "done")
    /\ (lock # Unlocked) ~> (lock = Unlocked)

\* Every thread has returned and the lock is free, after an initialize* that
\* joined, with the lock held, an engine that had served a manager call.
C31_Witness ==
    /\ lock = Unlocked
    /\ \A i \in Ids : cpc[i] = "done"
    /\ \A e \in Engines : ipc[e] = "done"
    /\ \E e \in Engines : iold[e] # 0 /\ lastTaken[iold[e]] # 0

\* C32: a manager operation called while no engine is installed (INSTANCE
\* unset, or set with an empty slot) returns EngineError("OCR engine not
\* initialized") in the step that looks the engine up: it queues nothing,
\* creates no engine and never waits for a worker, and while the slot is
\* empty the lock is held only by an operation that is returning.
C32_NotInitializedIsError ==
    /\ [][\A i \in Ids :
             (cpc[i] = "idle" /\ cpc'[i] # "idle" /\ cop'[i].via = "manager" /\ ~inst) =>
                 /\ cpc'[i] = "returned" /\ ret'[i] = EngineNotInitialized
                 /\ est' = est /\ queue' = queue /\ inst' = inst /\ lock' = lock]_vars
    /\ [][\A i \in Ids :
             (cpc[i] = "mlock" /\ cpc'[i] # "mlock" /\ slot = 0) =>
                 /\ cpc'[i] = "returned" /\ ret'[i] = EngineNotInitialized
                 /\ est' = est /\ queue' = queue /\ ~replyRx'[i]]_vars
    /\ [](\A i \in Ids : (cop[i].via = "manager" /\ cpc[i] = "waiting") => slot # 0)
    /\ [](slot = 0 => \/ lock = Unlocked
                      \/ \E i \in Ids : lock = ByCall(i) /\ cpc[i] = "returned")

\* Before any initialize*: one operation has returned the error without
\* taking the lock, no engine exists.
C32_Witness ==
    /\ ~inst /\ slot = 0 /\ lock = Unlocked
    /\ \A e \in Engines : est[e] = "none"
    /\ \E i \in Ids : cpc[i] = "returned" /\ ret[i] = EngineNotInitialized

\* Caller i called process_ocr on an image whose detection and whose every
\* region's recognition succeed, and the worker served the request.
AllSucceeded(i) ==
    /\ cpc[i] = "returned"
    /\ cop[i].kind = "ProcessOcr"
    /\ cop[i].image.det = "ok"
    /\ \A k \in 1..Len(cop[i].image.regs) : cop[i].image.regs[k] = "ok"
    /\ ret[i] \notin EngineErrors

\* C33: process_ocr then returns Ok with one string per detected region, the
\* k-th string being the text recognised in the k-th region of the image.
C33_OneStringPerRegion ==
    \A i \in Ids :
        AllSucceeded(i) =>
            /\ ret[i].ok
            /\ Len(ret[i].items) = Len(cop[i].image.regs)
            /\ \A k \in 1..Len(ret[i].items) :
                  ret[i].items[k] = [what |-> "text", tag |-> i, idx |-> k, rec |-> "ok"]

\* process_ocr has returned the strings of an image with MaxRegions regions.
C33_Witness ==
    \E i \in Ids : AllSucceeded(i) /\ ret[i].ok /\ Len(ret[i].items) = MaxRegions

\* ---- Det::bounding_rect on the contours that find_box hands to it ----

MaxPoints == 3

\* Points whose coordinates lie MIN_BOX_SIZE and MIN_BOX_SIZE + 1 apart, and
\* at the ends of the map
EdgeCoords == {0, MinBoxSize, MinBoxSize + 1, MapW - 1}
EdgePoints == [x : EdgeCoords, y : EdgeCoords]

\* find_box, the two filters on one contour: a contour with a parent is
\* dropped, an outer contour goes through bounding_rect
OuterBox(contour) ==
    IF contour.parent
    THEN [some |-> FALSE, rect |-> Rect(0, 0, 0, 0)]
    ELSE BoundingRect(contour.points)

\* One traced contour: its points, and whether it has a parent
BoundInit ==
    /\ ProcessStart
    /\ phase = "contour"
    /\ output = <<>>
    /\ \E n \in 0..MaxPoints : \E ps \in [1..n -> EdgePoints] : \E p \in BOOLEAN :
         input = [points |-> ps, parent |-> p]

\* find_box up to the collect of the bounding boxes, for one contour
DetBoundingRect ==
    /\ phase = "contour"
    /\ phase' = "bounded"
    /\ output' = OuterBox(input)
    /\ UNCHANGED input
    /\ UNCHANGED <<engineVars, replyVars, threadVars, managerVars>>

BoundNext == DetBoundingRect

BoundSpec == BoundInit /\ [][BoundNext]_vars

\* Rectangle r holds the point p (imageproc: right and bottom are the last
\* column and row of the rectangle).
HoldsPoint(r, p) ==
    r.left <= p.x /\ p.x <= Right(r) /\ r.top <= p.y /\ p.y <= Bottom(r)

\* The smallest and the largest of a non-empty set of numbers
MinOf(S) == CHOOSE m \in S : \A n \in S : m <= n
MaxOf(S) == CHOOSE m \in S : \A n \in S : m >= n

\* The x and the y coordinates of the points of the input contour
XsOfContour == {input.points[k].x : k \in 1..Len(input.points)}
YsOfContour == {input.points[k].y : k \in 1..Len(input.points)}

\* C34: the box returned for a contour that survives the size filter has
\* left = min x, top = min y, right = max x and bottom = max y over the
\* points of the contour, so that every point lies inside the box.
C34_BoundingBoxCoversPoints ==
    (phase = "bounded" /\ output.some) =>
        /\ output.rect.left = MinOf(XsOfContour)
        /\ output.rect.top = MinOf(YsOfContour)
        /\ Right(output.rect) = MaxOf(XsOfContour)
        /\ Bottom(output.rect) = MaxOf(YsOfContour)
        /\ \A k \in 1..Len(input.points) : HoldsPoint(output.rect, input.points[k])

\* The width and the height, in pixels, of the bounding box of the points of
\* the input contour: the columns min x .. max x and the rows min y .. max y
BoundingBoxWidth == MaxOf(XsOfContour) - MinOf(XsOfContour) + 1
BoundingBoxHeight == MaxOf(YsOfContour) - MinOf(YsOfContour) + 1

\* C35: a contour with a parent yields no box; an outer contour is discarded
\* exactly when it has no point or the width or the height of its bounding
\* box is MIN_BOX_SIZE (5) or less, and every other outer contour yields a
\* box.
C35_DiscardedExactlyWhenSmall ==
    phase = "bounded" =>
        IF input.parent \/ input.points = <<>>
        THEN ~output.some
        ELSE output.some <=>
                 ~(BoundingBoxWidth <= MinBoxSize \/ BoundingBoxHeight <= MinBoxSize)

\* The same with the width and the height taken as max - min, the numbers
\* bounding_rect compares with MIN_BOX_SIZE
FilterOnExtent ==
    phase = "bounded" =>
        IF input.parent \/ input.points = <<>>
        THEN ~output.some
        ELSE output.some <=>
                 ~(BoundingBoxWidth - 1 <= MinBoxSize \/ BoundingBoxHeight - 1 <= MinBoxSize)

\* ---- Det::get_pad_length ----

PadMultiple == 32
MaxPadBlocks == 2

\* Det::get_pad_length on the u32 word: length + 32 - i is evaluated from the
\* left; where the sum leaves the word, a build with overflow checks panics
\* and a build without them wraps around
GetPadLength(length, checks) ==
    LET i == length % PadMultiple
    IN  IF i = 0
        THEN [panic |-> FALSE, value |-> length]
        ELSE [panic |-> checks /\ length + PadMultiple >= U32Modulus,
              value |-> AsU32(AsU32(length + PadMultiple) - i)]

\* Lengths up to a few multiples of 32, and the lengths at the end of the word
PadLengths ==
    0..(MaxPadBlocks * PadMultiple + 1) \cup (U32Modulus - PadMultiple - 1)..(U32Modulus - 1)

\* An image side, and whether the build checks for overflow
PadInit ==
    /\ ProcessStart
    /\ phase = "pad"
    /\ output = <<>>
    /\ \E n \in PadLengths, k \in BOOLEAN : input = [length |-> n, checks |-> k]

\* preprocess, one call of get_pad_length
DetGetPadLength ==
    /\ phase = "pad"
    /\ LET padded == GetPadLength(input.length, input.checks)
       IN  IF padded.panic
           THEN phase' = "panicked" /\ output' = <<>>
           ELSE phase' = "padded" /\ output' = padded.value
    /\ UNCHANGED input
    /\ UNCHANGED <<engineVars, replyVars, threadVars, managerVars>>

PadNext == DetGetPadLength

PadSpec == PadInit /\ [][PadNext]_vars

\* The value v is the smallest multiple of 32 that is n or more.
SmallestMultipleFrom(v, n) ==
    /\ v % PadMultiple = 0
    /\ v >= n
    /\ v - n < PadMultiple

\* C37: get_pad_length(n) returns the smallest multiple of 32 that is n or
\* more, n itself for a multiple of 32, so a padded side is a multiple of 32
\* and never smaller than the image side.
C37_PadIsNextMultiple ==
    /\ phase # "panicked"
    /\ phase = "padded" =>
         /\ SmallestMultipleFrom(output, input.length)
         /\ input.length % PadMultiple = 0 => output = input.length

\* The same for the sides whose next multiple of 32 fits the u32 word
PadInRange ==
    input.length <= U32Modulus - PadMultiple =>
        /\ phase # "panicked"
        /\ phase = "padded" =>
             /\ SmallestMultipleFrom(output, input.length)
             /\ input.length % PadMultiple = 0 => output = input.length

\* ---- Det::preprocess: the image written into the padded tensor by chunks ----

PreW == 2
PreH == 2
PixelChunkLen == 2

\* MEAN and STD of preprocess, in thousandths
Mean == <<485, 456, 406>>
Std == <<229, 224, 225>>

\* (byte / 255.0 - MEAN[c]) / STD[c] for the channel c of 0..2, in thousandths
Norm(c, byte) == ((byte * 1000000) \div 255 - Mean[c + 1] * 1000) \div Std[c + 1]

\* The image sides and pixels of the input
PreImages ==
    {[w |-> iw, h |-> ih, pixels |-> [x \in 0..(iw - 1), y \in 0..(ih - 1) |->
                                      [c \in 0..2 |-> (shade + 3 * (x + y * iw) + c) % 256]]] :
        iw \in 0..PreW, ih \in 0..PreH, shade \in {0, 250}}

\* The sides of the tensor
PadW == GetPadLength(input.w, FALSE).value
PadH == GetPadLength(input.h, FALSE).value

\* The tensor is stored channel by channel and row by row: the place of the
\* cell (0, c, y, x), the cell of a place, and the cells that belong to a pixel
TensorCells == 1..(3 * PadH * PadW)
Offset(c, y, x) == (c * PadH + y) * PadW + x + 1
CellAt(k) == [c |-> (k - 1) \div (PadH * PadW), y |-> ((k - 1) \div PadW) % PadH, x |-> (k - 1) % PadW]
IsPixelCell(k) == CellAt(k).x < input.w /\ CellAt(k).y < input.h

\* pixel_coords: the pixels row by row, and its chunks of PixelChunkLen pixels
\* (1024 in the code)
PixelCoord(k) == [x |-> k % input.w, y |-> k \div input.w]
NumPixels == input.w * input.h
NumPixelChunks == (NumPixels + PixelChunkLen - 1) \div PixelChunkLen
MaxPixelChunks == (PreW * PreH + PixelChunkLen - 1) \div PixelChunkLen
PixelChunk(n) ==
    [k \in 1..Min2(PixelChunkLen, NumPixels - (n - 1) * PixelChunkLen) |-> PixelCoord((n - 1) * PixelChunkLen + k - 1)]

\* A chunk closure that writes the three values of a pixel to channel 0
LocalUpdatesOneChannel(chunk) ==
    [j \in 1..(3 * Len(chunk)) |->
        LET p == chunk[(j - 1) \div 3 + 1]
            c == (j - 1) % 3
        IN  [cell |-> Offset(0, p.y, p.x), value |-> Norm(c, input.pixels[p.x, p.y][c])]]

\* The chunk closure, first half: local_updates holds, pixel by pixel, the
\* normalised red, green and blue with the cells (0, 0, y, x), (0, 1, y, x)
\* and (0, 2, y, x)
LocalUpdates(chunk) ==
    [j \in 1..(3 * Len(chunk)) |->
        LET p == chunk[(j - 1) \div 3 + 1]
            c == (j - 1) % 3
        IN  [cell |-> Offset(c, p.y, p.x), value |-> Norm(c, input.pixels[p.x, p.y][c])]]

\* Array::zeros, no chunk started, the mutex free. `writes` counts the
\* assignments to each cell, `order` lists the chunks as they took the mutex.
PreInit ==
    /\ ProcessStart
    /\ phase = "preprocess"
    /\ input \in PreImages
    /\ output = [tensor |-> [cell \in TensorCells |-> 0],
                 writes |-> [cell \in TensorCells |-> 0],
                 chunk |-> [n \in 1..NumPixelChunks |-> "todo"],
                 local |-> [n \in 1..NumPixelChunks |-> <<>>],
                 guard |-> 0,
                 order |-> <<>>]

\* A rayon worker takes chunk n and fills local_updates
PreChunkBuild(n) ==
    /\ phase = "preprocess"
    /\ n <= NumPixelChunks
    /\ output.chunk[n] = "todo"
    /\ output' = [output EXCEPT !.chunk[n] = "built", !.local[n] = LocalUpdates(PixelChunk(n))]
    /\ UNCHANGED <<phase, input>>
    /\ UNCHANGED <<engineVars, replyVars, threadVars, managerVars>>

\* input_mutex.lock()
PreChunkLock(n) ==
    /\ phase = "preprocess"
    /\ n <= NumPixelChunks
    /\ output.chunk[n] = "built"
    /\ output.guard = 0
    /\ output' = [output EXCEPT !.chunk[n] = "locked", !.guard = n, !.order = Append(@, n)]
    /\ UNCHANGED <<phase, input>>
    /\ UNCHANGED <<engineVars, replyVars, threadVars, managerVars>>

\* input_guard[coords] = value, for the next of the local updates
PreChunkWrite(n) ==
    /\ phase = "preprocess"
    /\ n <= NumPixelChunks
    /\ output.chunk[n] = "locked"
    /\ output.local[n] # <<>>
    /\ LET u == Head(output.local[n])
       IN  output' = [output EXCEPT !.tensor[u.cell] = u.value,
                                    !.writes[u.cell] = @ + 1,
                                    !.local[n] = Tail(@)]
    /\ UNCHANGED <<phase, input>>
    /\ UNCHANGED <<engineVars, replyVars, threadVars, managerVars>>

\* The closure ends and drops the guard
PreChunkUnlock(n) ==
    /\ phase = "preprocess"
    /\ n <= NumPixelChunks
    /\ output.chunk[n] = "locked"
    /\ output.local[n] = <<>>
    /\ output' = [output EXCEPT !.chunk[n] = "done", !.guard = 0]
    /\ UNCHANGED <<phase, input>>
    /\ UNCHANGED <<engineVars, replyVars, threadVars, managerVars>>

\* for_each returns once every chunk is done: Ok(input)
PreReturn ==
    /\ phase = "preprocess"
    /\ \A n \in 1..NumPixelChunks : output.chunk[n] = "done"
    /\ phase' = "tensor"
    /\ UNCHANGED <<input, output>>
    /\ UNCHANGED <<engineVars, replyVars, threadVars, managerVars>>

PreNext ==
    \/ \E n \in 1..MaxPixelChunks :
         \/ PreChunkBuild(n)
         \/ PreChunkLock(n)
         \/ PreChunkWrite(n)
         \/ PreChunkUnlock(n)
    \/ PreReturn

PreSpec == PreInit /\ [][PreNext]_vars

\* The tensor of a sequential pass over the pixels
SequentialTensor ==
    [cell \in TensorCells |->
        LET at == CellAt(cell)
        IN  IF IsPixelCell(cell) THEN Norm(at.c, input.pixels[at.x, at.y][at.c]) ELSE 0]

\* C36: whatever the order and overlap of the chunks, no cell is written
\* twice and the padding is never written and stays 0; in the tensor that
\* preprocess returns the three cells of every pixel have been written
\* exactly once and the tensor is that of a sequential pass over the pixels.
C36_ChunksWriteEachCellOnce ==
    /\ \A cell \in TensorCells :
         /\ output.writes[cell] <= 1
         /\ ~IsPixelCell(cell) => output.writes[cell] = 0 /\ output.tensor[cell] = 0
    /\ phase = "tensor" =>
         /\ \A cell \in TensorCells : IsPixelCell(cell) => output.writes[cell] = 1
         /\ output.tensor = SequentialTensor

\* A tensor returned after the second chunk wrote before the first
C36_Witness ==
    /\ phase = "tensor"
    /\ output.order = <<2, 1>>
    /\ \E cell \in TensorCells : ~IsPixelCell(cell)

\* ---- The C API: the handle registry and the memory of detailed results ----

MaxApiCalls == 4

\* RocrStatus
RocrSuccess == "Success"
RocrInvalidParam == "InvalidParam"
RocrNotInitialized == "NotInitialized"
RocrImageLoadError == "ImageLoadError"
RocrProcessError == "ProcessError"
RocrMemoryError == "MemoryError"

\* impl From<OcrError> for RocrStatus, for the errors an engine call returns
StatusOfError(e) ==
    CASE e = "EngineError" -> RocrNotInitialized
      [] e = "ImageError" -> RocrImageLoadError
      [] OTHER -> RocrProcessError

\* The handles a caller may pass: 0, those given out so far, and one that
\* was never given out
HandleArgs == 0..(MaxApiCalls + 1)

\* The image path of a call: a null pointer, bytes that are not UTF-8, a
\* file image::open cannot load, and a file it loads
PathArgs == {"null", "not_utf8", "unloadable", "image"}

\* What the engine does with the image: get_text_rects fails or finds so
\* many rectangles, get_text_images fails or not, and for every rectangle
\* recognize_text fails ("err"), returns a text with a NUL inside ("nul"),
\* or returns a text whose malloc fails ("nomem") or succeeds ("ok")
EngineErrorKinds == {"EngineError", "MNNError"}
RegionOutcomes == {"err", "nul", "nomem", "ok"}
RectOutcomes ==
    {[err |-> e, found |-> 0] : e \in EngineErrorKinds}
        \cup {[err |-> "none", found |-> n] : n \in 0..MaxRegions}

\* The RocrResult of a call that allocated nothing
EmptyResult(status) == [status |-> status, count |-> 0, boxes |-> 0, texts |-> <<>>, blocks |-> {}]

\* rocr_recognize_detailed, the loop over the rectangles: the texts written
\* to boxes_slice[0 .. valid_count) as heap blocks numbered from `free` on
RECURSIVE RecognizeLoop(_, _, _)
RecognizeLoop(outcomes, texts, free) ==
    IF outcomes = <<>> THEN texts
    ELSE IF Head(outcomes) = "ok"
         THEN RecognizeLoop(Tail(outcomes), Append(texts, free), free + 1)
         ELSE RecognizeLoop(Tail(outcomes), texts, free)

\* rocr_recognize_detailed: the result for a handle, a path, the registry,
\* the outcomes of the engine and of malloc, and the next heap block `free`.
\* `blocks` are the blocks the call allocated; a null pointer is 0.
RecognizeDetailed(handle, path, registry, rects, images_ok, boxes_ok, outcomes, free) ==
    IF handle = 0 \/ path = "null" THEN EmptyResult(RocrInvalidParam)
    ELSE IF path = "not_utf8" THEN EmptyResult(RocrInvalidParam)
    ELSE IF path = "unloadable" THEN EmptyResult(RocrImageLoadError)
    ELSE IF handle \notin registry THEN EmptyResult(RocrNotInitialized)
    ELSE IF rects.err # "none" THEN EmptyResult(StatusOfError(rects.err))
    ELSE IF rects.found = 0 THEN EmptyResult(RocrSuccess)
    ELSE IF ~images_ok THEN EmptyResult(StatusOfError("MNNError"))
    ELSE IF ~boxes_ok THEN EmptyResult(RocrMemoryError)
    ELSE LET texts == RecognizeLoop(outcomes, <<>>, free + 1)
         IN  [status |-> RocrSuccess, count |-> Len(texts), boxes |-> free, texts |-> texts,
              blocks |-> {free} \cup {texts[k] : k \in 1..Len(texts)}]

\* The record of the call that returned last
Returned(op, handle, path, status, known) ==
    [op |-> op, handle |-> handle, path |-> path, status |-> status, known |-> known]

\* NEXT_HANDLE is 1 and the registry empty; no heap block is allocated and
\* the caller holds no result. `taken` are the handles of the create calls
\* that have their handle and not yet the lock, `issued` the handles create
\* calls have returned, `gone` the handles removed from the registry,
\* `invalid_free` whether free was called on a block that was not allocated.
CapiInit ==
    /\ ProcessStart
    /\ phase = "capi"
    /\ input = <<>>
    /\ output = [next_handle |-> 1, engines |-> {}, taken |-> {}, issued |-> <<>>, gone |-> {},
                 heap |-> {}, next_block |-> 1, held |-> <<>>, invalid_free |-> FALSE,
                 calls |-> 0, last |-> Returned("none", 0, "", "", FALSE)]

\* A create call that hands out the handle again that the call before got
RocrCreateTakeReuses ==
    /\ phase = "capi"
    /\ output.calls < MaxApiCalls
    /\ output' = [output EXCEPT !.taken = @ \cup {Max2(1, output.next_handle - 1)},
                                !.calls = @ + 1]
    /\ UNCHANGED <<phase, input>>
    /\ UNCHANGED <<engineVars, replyVars, threadVars, managerVars>>

\* rocr_create_engine, rocr_create_engine_with_config and
\* rocr_create_engine_with_bytes with a null or unreadable argument, or with
\* an engine that fails to start: 0
RocrCreateFail ==
    /\ phase = "capi"
    /\ output.calls < MaxApiCalls
    /\ output' = [output EXCEPT !.calls = @ + 1,
                                !.last = Returned("create", 0, "", "", FALSE)]
    /\ UNCHANGED <<phase, input>>
    /\ UNCHANGED <<engineVars, replyVars, threadVars, managerVars>>

\* The three create calls once the engine runs: get_next_handle
RocrCreateTake ==
    /\ phase = "capi"
    /\ output.calls < MaxApiCalls
    /\ output' = [output EXCEPT !.taken = @ \cup {output.next_handle},
                                !.next_handle = @ + 1,
                                !.calls = @ + 1]
    /\ UNCHANGED <<phase, input>>
    /\ UNCHANGED <<engineVars, replyVars, threadVars, managerVars>>

\* ... and then, under the lock of the registry, map.insert; the handle is
\* returned
RocrCreateInsert(handle) ==
    /\ phase = "capi"
    /\ handle \in output.taken
    /\ output' = [output EXCEPT !.taken = @ \ {handle},
                                !.engines = @ \cup {handle},
                                !.issued = Append(@, handle),
                                !.last = Returned("create", handle, "", "", FALSE)]
    /\ UNCHANGED <<phase, input>>
    /\ UNCHANGED <<engineVars, replyVars, threadVars, managerVars>>

\* rocr_destroy_engine
RocrDestroyEngine(handle) ==
    /\ phase = "capi"
    /\ output.calls < MaxApiCalls
    /\ LET known == handle \in output.engines
           status == IF handle = 0 THEN RocrInvalidParam
                     ELSE IF known THEN RocrSuccess ELSE RocrInvalidParam
       IN  output' = [output EXCEPT !.engines = IF handle = 0 THEN @ ELSE @ \ {handle},
                                    !.gone = IF handle # 0 /\ known THEN @ \cup {handle} ELSE @,
                                    !.calls = @ + 1,
                                    !.last = Returned("destroy", handle, "", status, known)]
    /\ UNCHANGED <<phase, input>>
    /\ UNCHANGED <<engineVars, replyVars, threadVars, managerVars>>

\* rocr_recognize_detailed; the caller keeps the result. The engine is
\* called only for a loaded image and a registered handle, get_text_images
\* and malloc only for a list of rectangles that is not empty.
RocrRecognizeDetailed(handle, path) ==
    /\ phase = "capi"
    /\ output.calls < MaxApiCalls
    /\ \E rects \in IF path = "image" /\ handle \in output.engines
                    THEN RectOutcomes ELSE {[err |-> "none", found |-> 0]} :
         \E images_ok \in IF rects.found > 0 THEN BOOLEAN ELSE {TRUE} :
         \E boxes_ok \in IF rects.found > 0 /\ images_ok THEN BOOLEAN ELSE {TRUE} :
         \E outcomes \in [1..(IF images_ok /\ boxes_ok THEN rects.found ELSE 0) -> RegionOutcomes] :
           LET result == RecognizeDetailed(handle, path, output.engines, rects, images_ok,
                                           boxes_ok, outcomes, output.next_block)
           IN  output' = [output EXCEPT
                            !.heap = @ \cup result.blocks,
                            !.next_block = @ + Cardinality(result.blocks),
                            !.held = Append(@, result),
                            !.calls = @ + 1,
                            !.last = Returned("recognize", handle, path, result.status,
                                              handle \in output.engines)]
    /\ UNCHANGED <<phase, input>>
    /\ UNCHANGED <<engineVars, replyVars, threadVars, managerVars>>

\* rocr_free_result on the k-th result the caller holds: with a boxes
\* pointer and a count above 0 it frees the text of each of the count boxes
\* and the array; then it clears the pointer and the count
RocrFreeResult(k) ==
    /\ phase = "capi"
    /\ output.calls < MaxApiCalls
    /\ k \in 1..Len(output.held)
    /\ LET result == output.held[k]
           freed == IF result.boxes # 0 /\ result.count > 0
                    THEN {result.boxes} \cup {result.texts[j] : j \in 1..result.count}
                    ELSE {}
       IN  output' = [output EXCEPT
                        !.heap = @ \ freed,
                        !.invalid_free = @ \/ ~(freed \subseteq output.heap),
                        !.held[k] = [result EXCEPT !.boxes = 0, !.count = 0],
                        !.calls = @ + 1,
                        !.last = Returned("free", k, "", "", FALSE)]
    /\ UNCHANGED <<phase, input>>
    /\ UNCHANGED <<engineVars, replyVars, threadVars, managerVars>>

\* rocr_cleanup
RocrCleanup ==
    /\ phase = "capi"
    /\ output.calls < MaxApiCalls
    /\ output' = [output EXCEPT !.gone = @ \cup output.engines,
                                !.engines = {},
                                !.calls = @ + 1,
                                !.last = Returned("cleanup", 0, "", "", FALSE)]
    /\ UNCHANGED <<phase, input>>
    /\ UNCHANGED <<engineVars, replyVars, threadVars, managerVars>>

CapiNext ==
    \/ RocrCreateFail
    \/ RocrCreateTake
    \/ \E handle \in HandleArgs :
         \/ RocrCreateInsert(handle)
         \/ RocrDestroyEngine(handle)
         \/ \E path \in PathArgs : RocrRecognizeDetailed(handle, path)
    \/ \E k \in 1..MaxApiCalls : RocrFreeResult(k)
    \/ RocrCleanup

CapiSpec == CapiInit /\ [][CapiNext]_vars

\* The handles create calls have returned are not 0 and differ from one
\* another, so none is given out again after it was destroyed; a handle that
\* was removed from the registry is not registered.
HandlesFresh ==
    /\ \A i \in 1..Len(output.issued) : output.issued[i] # 0
    /\ \A i, j \in 1..Len(output.issued) : i # j => output.issued[i] # output.issued[j]
    /\ output.gone \cap output.engines = {}

\* rocr_destroy_engine returned Success exactly for a registered handle, and
\* InvalidParam for 0 and for a handle that was not registered.
DestroyStatus ==
    output.last.op = "destroy" =>
        /\ output.last.status = RocrSuccess <=> output.last.known
        /\ ~output.last.known => output.last.status = RocrInvalidParam
        /\ output.last.handle = 0 => ~output.last.known

\* The registry is empty when rocr_cleanup has returned.
CleanupEmpties == output.last.op = "cleanup" => output.engines = {}

C39_FreeReleasesEverything ==
    /\ ~output.invalid_free
    /\ \A k \in 1..Len(output.held) :
         (output.held[k].boxes = 0 /\ output.held[k].status = RocrSuccess) =>
             output.held[k].blocks \cap output.heap = {}

\* The same for the results with at least one recognized region, and for
\* the frees alone: those never touch a block that is not allocated
FreeReleasesRecognized ==
    /\ ~output.invalid_free
    /\ \A k \in 1..Len(output.held) :
         (output.held[k].boxes = 0 /\ Cardinality(output.held[k].blocks) > 1) =>
             output.held[k].blocks \cap output.heap = {}

\* ---- Det::boxes_overlap_with_threshold on a pair of boxes, both ways round ----

\* Bounding boxes of contours in a map of four times MapW by four times MapH
ContourBoxes ==
    {Rect(l, t, w, h) : l \in {0, 2}, t \in {0, 1},
                        w \in {MinBoxSize + 1, 2 * MinBoxSize + 1, 3 * MinBoxSize, 4 * MinBoxSize},
                        h \in {MinBoxSize + 1, 2 * MinBoxSize + 1, 3 * MinBoxSize, 4 * MinBoxSize}}

\* The boxes find_box makes of them with a rect_border_size of 2^32 - 6,
\* which `as i32` turns into -6 (the failing input of C22): sides of 13 and
\* more shrink by 12, shorter sides become negative and `as u32` makes them
\* sides of 2^32 - 6 .. 2^32 - 1
ShrunkBoxes ==
    {ExpandBox(x, U32Modulus - MinBoxSize - 1, 4 * MapW, 4 * MapH, FALSE).rect : x \in ContourBoxes}

\* Two boxes of the grid, or two boxes as find_box returns them for that
\* border, and a threshold
SymmetryInit ==
    /\ ProcessStart
    /\ phase = "overlap"
    /\ output = <<>>
    /\ \E t \in Thresholds :
         \/ \E a \in BoxesInGrid, b \in BoxesInGrid : input = [boxes |-> <<a, b>>, threshold |-> t]
         \/ \E a \in ShrunkBoxes, b \in ShrunkBoxes : input = [boxes |-> <<a, b>>, threshold |-> t]

\* process_boxes asks whether the two boxes are mergeable, with the one and
\* with the other as `current`
DetBoxesOverlap ==
    /\ phase = "overlap"
    /\ phase' = "overlapped"
    /\ output' = [ab |-> BoxesOverlapWithThreshold(input.boxes[1], input.boxes[2], input.threshold),
                  ba |-> BoxesOverlapWithThreshold(input.boxes[2], input.boxes[1], input.threshold)]
    /\ UNCHANGED input
    /\ UNCHANGED <<engineVars, replyVars, threadVars, managerVars>>

SymmetryNext == DetBoxesOverlap

SymmetrySpec == SymmetryInit /\ [][SymmetryNext]_vars

\* C40: boxes_overlap_with_threshold(a, b, t) equals
\* boxes_overlap_with_threshold(b, a, t) for all boxes a and b and all
\* thresholds t, the boxes with the same top edge included.
C40_OverlapSymmetric ==
    phase = "overlapped" => output.ab = output.ba

\* The same for the boxes whose heights are below 2^31
SymmetricBelowI32 ==
    (/\ phase = "overlapped"
     /\ AsI32(input.boxes[1].height) > 0
     /\ AsI32(input.boxes[2].height) > 0) => output.ab = output.ba

====
